---------------------------- MODULE Spec2Model ----------------------------
(***************************************************************************)
(* Model of the MultiversX (mvx) x402 payment scheme:                      *)
(*   python/x402_a2a/src/x402_a2a/schemes/multiversx.py                    *)
(*   python/x402_a2a/src/x402_a2a/schemes/multiversx_config.py             *)
(*                                                                         *)
(* A Python str is a sequence of code points, a bytes object a sequence of *)
(* byte values.  A Python value whose type the code inspects (None, str,   *)
(* bytes, int) is a record [t |-> type name, v |-> value].  A dict is a    *)
(* function whose domain is the set of keys that are present.              *)
(***************************************************************************)
EXTENDS Integers, Sequences, FiniteSets, TLC

VARIABLES chain_id, config, req, call, signer_calls, attempts, txs

vars == <<chain_id, config, req, call, signer_calls, attempts, txs>>

-----------------------------------------------------------------------------
(* Bounds of the model.                                                    *)

\* amounts 1..MaxAmount are tried besides the fixed sample amounts
MaxAmount == 17

\* data strings "a" * n for n in 0..MaxDataLen are tried by the gas estimator
MaxDataLen == 4

-----------------------------------------------------------------------------
(* Python values.                                                          *)

None == [t |-> "NoneType", v |-> <<>>]

Str(s) == [t |-> "str", v |-> s]

Bytes(b) == [t |-> "bytes", v |-> b]

\* dict.get(key, default)
Get(d, key, default) == IF key \in DOMAIN d THEN d[key] ELSE default

PyInt(n) == [t |-> "int", v |-> n]

\* Python truthiness of a [t, v] value: None, "", b"" and 0 are falsy
Truthy(x) ==
    CASE x.t = "NoneType" -> FALSE
      [] x.t = "int" -> x.v # 0
      [] OTHER -> x.v # <<>>

\* str.startswith(prefix)
StartsWith(s, prefix) ==
    /\ Len(s) >= Len(prefix)
    /\ SubSeq(s, 1, Len(prefix)) = prefix

\* c * n
Rep(c, n) == [i \in 1..n |-> c]

\* sub in s
Contains(s, sub) ==
    \E i \in 0..(Len(s) - Len(sub)) : SubSeq(s, i + 1, i + Len(sub)) = sub

-----------------------------------------------------------------------------
(* String literals of the program, as code points.                         *)

EGLD == <<69, 71, 76, 68>>                          \* "EGLD"
ERD1 == <<101, 114, 100, 49>>                       \* "erd1"
HYPHEN == <<45>>                                    \* "-"
AT == <<64>>                                        \* "@"
SUCCESS == <<115, 117, 99, 99, 101, 115, 115>>      \* "success"
MULTI_ESDT == <<77, 117, 108, 116, 105, 69, 83, 68, 84>>    \* "MultiESDT"
ESDT == <<69, 83, 68, 84>>                          \* "ESDT"
\* "MultiESDTNFTTransfer"
MULTI_ESDT_NFT_TRANSFER ==
    <<77, 117, 108, 116, 105, 69, 83, 68, 84, 78, 70, 84,
      84, 114, 97, 110, 115, 102, 101, 114>>
\* "ESDTTransfer"
ESDT_TRANSFER == <<69, 83, 68, 84, 84, 114, 97, 110, 115, 102, 101, 114>>
DIRECT == <<100, 105, 114, 101, 99, 116>>           \* "direct"
ESDT_METHOD == <<101, 115, 100, 116>>               \* "esdt"
TOKEN_METHOD == <<116, 111, 107, 101, 110>>         \* "token"
MVX == <<109, 118, 120>>                            \* "mvx"
COLON == <<58>>                                     \* ":"
APPLICATION_JSON ==
    <<97, 112, 112, 108, 105, 99, 97, 116, 105, 111, 110, 47,
      106, 115, 111, 110>>                          \* "application/json"

-----------------------------------------------------------------------------
(* str.encode(), bytes.hex(), hex(int).                                    *)

\* UTF-8 encoding of one code point
Utf8Char(c) ==
    IF c < 128 THEN <<c>>
    ELSE IF c < 2048 THEN <<192 + (c \div 64), 128 + (c % 64)>>
    ELSE IF c < 65536
         THEN <<224 + (c \div 4096), 128 + ((c \div 64) % 64), 128 + (c % 64)>>
    ELSE <<240 + (c \div 262144), 128 + ((c \div 4096) % 64),
           128 + ((c \div 64) % 64), 128 + (c % 64)>>

RECURSIVE Utf8Encode(_)
\* s.encode(): the encodings of the characters of s, one after the other
Utf8Encode(s) ==
    IF Len(s) = 0 THEN <<>>
    ELSE IF Len(s) = 1 THEN Utf8Char(s[1])
    ELSE LET h == Len(s) \div 2
         IN  Utf8Encode(SubSeq(s, 1, h)) \o Utf8Encode(SubSeq(s, h + 1, Len(s)))

\* the code point of the lowercase hex digit of value d (0..15)
HexDigit(d) == IF d < 10 THEN 48 + d ELSE 87 + d

\* b.hex(): two lowercase hex digits per byte
BytesHex(b) ==
    [i \in 1..(2 * Len(b)) |->
        IF i % 2 = 1 THEN HexDigit(b[(i + 1) \div 2] \div 16)
        ELSE HexDigit(b[i \div 2] % 16)]

RECURSIVE IntHex(_)
\* hex(n)[2:] for n >= 0: the minimal-length lowercase hex numeral
IntHex(n) ==
    IF n < 16 THEN <<HexDigit(n)>> ELSE IntHex(n \div 16) \o <<HexDigit(n % 16)>>

\* the value of a hex digit character, or -1
HexVal(c) ==
    IF c >= 48 /\ c <= 57 THEN c - 48
    ELSE IF c >= 97 /\ c <= 102 THEN c - 87
    ELSE IF c >= 65 /\ c <= 70 THEN c - 55
    ELSE -1

RECURSIVE ParseHex(_)
\* int(s, 16) of a string of hex digits
ParseHex(s) ==
    IF s = <<>> THEN 0
    ELSE 16 * ParseHex(SubSeq(s, 1, Len(s) - 1)) + HexVal(s[Len(s)])

RECURSIVE IntStr(_)
\* str(n) for n >= 0: the decimal numeral
IntStr(n) ==
    IF n < 10 THEN <<48 + n>> ELSE IntStr(n \div 10) \o <<48 + (n % 10)>>

-----------------------------------------------------------------------------
(* MultiversXConfig (multiversx_config.py).                                *)

\* the dataclass defaults
MultiversXConfig ==
    [GAS_BASE_COST |-> 50000,
     GAS_PER_BYTE |-> 1500,
     GAS_MULTI_TRANSFER_COST |-> 200000,
     GAS_RELAYED_COST |-> 50000,
     GAS_PRICE_DEFAULT |-> 1000000000,
     TRANSFER_METHOD_DIRECT |-> DIRECT,
     TRANSFER_METHOD_ESDT |-> ESDT_METHOD,
     DEFAULT_TIMEOUT_SECONDS |-> 600,
     MIN_TIMEOUT_SECONDS |-> 60,
     CAIP2_NAMESPACE |-> MVX]

\* MultiversXConfig.from_env(): env maps the names of the variables that are
\* set to the integers their texts denote; a variable that is not set gives the
\* default.  No value is range-checked.
from_env(env) ==
    [MultiversXConfig EXCEPT
       !.GAS_BASE_COST = Get(env, "MVX_GAS_BASE_COST", 50000),
       !.GAS_PER_BYTE = Get(env, "MVX_GAS_PER_BYTE", 1500),
       !.GAS_MULTI_TRANSFER_COST = Get(env, "MVX_GAS_MULTI_TRANSFER_COST", 200000),
       !.GAS_RELAYED_COST = Get(env, "MVX_GAS_RELAYED_COST", 50000),
       !.GAS_PRICE_DEFAULT = Get(env, "MVX_GAS_PRICE_DEFAULT", 1000000000),
       !.DEFAULT_TIMEOUT_SECONDS = Get(env, "MVX_DEFAULT_TIMEOUT_SECONDS", 600),
       !.MIN_TIMEOUT_SECONDS = Get(env, "MVX_MIN_TIMEOUT_SECONDS", 60)]

-----------------------------------------------------------------------------
(* Exceptions.                                                             *)

NoExc == [type |-> "None", msg |-> "", arg |-> <<>>]

ValueError(msg, arg) == [type |-> "ValueError", msg |-> msg, arg |-> arg]

\* raised by the SDK's Address.new_from_bech32 for a string that is no bech32
\* address
BadAddressError(arg) == [type |-> "BadAddressError", msg |-> "", arg |-> arg]

-----------------------------------------------------------------------------
(* The SDK's Address.new_from_bech32(s).hex(): the bech32 strings with a   *)
(* valid checksum among those the model uses, with the hex of their public *)
(* keys.                                                                   *)

\* "erd1qqqqqqqqqqqqqqqqqqqqqqqqqqqqqqqqqqqqqqqqqqqqqqqqqqqq6gq4hu"
ADDR_ZERO == ERD1 \o Rep(113, 52) \o <<54, 103, 113, 52, 104, 117>>

\* "erd1qyqszqgpqyqszqgpqyqszqgpqyqszqgpqyqszqgpqyqszqgpqyqsl6e0p7"
ADDR_ONE ==
    <<101, 114, 100, 49, 113, 121, 113, 115, 122, 113, 103, 112, 113, 121,
      113, 115, 122, 113, 103, 112, 113, 121, 113, 115, 122, 113, 103, 112,
      113, 121, 113, 115, 122, 113, 103, 112, 113, 121, 113, 115, 122, 113,
      103, 112, 113, 121, 113, 115, 122, 113, 103, 112, 113, 121, 113, 115,
      108, 54, 101, 48, 112, 55>>

\* "erd14w46h2at4w46h2at4w46h2at4w46h2at4w46h2at4w46h2at4w4sqpx984"
ADDR_AB ==
    <<101, 114, 100, 49, 52, 119, 52, 54, 104, 50, 97, 116, 52, 119, 52, 54,
      104, 50, 97, 116, 52, 119, 52, 54, 104, 50, 97, 116, 52, 119, 52, 54,
      104, 50, 97, 116, 52, 119, 52, 54, 104, 50, 97, 116, 52, 119, 52, 54,
      104, 50, 97, 116, 52, 119, 52, 115, 113, 112, 120, 57, 56, 52>>

\* Address.new_from_bech32(s).hex(): [exc, hex]
AddressHex(s) ==
    CASE s = ADDR_ZERO -> [exc |-> NoExc, hex |-> Rep(48, 64)]
      [] s = ADDR_ONE -> [exc |-> NoExc, hex |-> [i \in 1..64 |-> <<48, 49>>[((i - 1) % 2) + 1]]]
      [] s = ADDR_AB -> [exc |-> NoExc, hex |-> [i \in 1..64 |-> <<97, 98>>[((i - 1) % 2) + 1]]]
      [] OTHER -> [exc |-> BadAddressError(s), hex |-> <<>>]

-----------------------------------------------------------------------------
(* MultiversXScheme (multiversx.py): the gas estimator, the encoder and    *)
(* the requirements builder.                                               *)

\* the buffer for smart contract execution
SC_EXECUTION_BUFFER == 10000000

\* the fixed total length of a receiver address
ADDRESS_LENGTH == 62

calculate_gas_limit_CharLength(cfg, data_string, token_identifier) ==
    LET data_len == Len(data_string)
        gas_limit == cfg.GAS_BASE_COST + (cfg.GAS_PER_BYTE * data_len)
                     + cfg.GAS_MULTI_TRANSFER_COST + cfg.GAS_RELAYED_COST
    IN  IF token_identifier # EGLD \/ data_string # <<>>
        THEN gas_limit + SC_EXECUTION_BUFFER
        ELSE gas_limit

calculate_gas_limit(cfg, data_string, token_identifier) ==
    LET data_len == Len(Utf8Encode(data_string))
        gas_limit == cfg.GAS_BASE_COST + (cfg.GAS_PER_BYTE * data_len)
                     + cfg.GAS_MULTI_TRANSFER_COST + cfg.GAS_RELAYED_COST
    IN  IF token_identifier # EGLD \/ data_string # <<>>
        THEN gas_limit + SC_EXECUTION_BUFFER
        ELSE gas_limit

AmountHex_Unpadded(amount) == IntHex(amount)

\* the amount field: hex(amount)[2:], with one "0" in front when its length is odd
AmountHex(amount) ==
    LET amount_hex == IntHex(amount)
    IN  IF Len(amount_hex) % 2 # 0 THEN <<48>> \o amount_hex ELSE amount_hex

\* [exc, ret]: the MultiESDTNFTTransfer data string
_construct_transfer_data_string(token, amount, receiver) ==
    IF token = EGLD THEN [exc |-> NoExc, ret |-> <<>>]
    ELSE LET dest == AddressHex(receiver)
             token_hex == BytesHex(Utf8Encode(token))
         IN  IF dest.exc # NoExc THEN [exc |-> dest.exc, ret |-> <<>>]
             ELSE [exc |-> NoExc,
                   ret |-> MULTI_ESDT_NFT_TRANSFER \o AT \o dest.hex \o AT \o <<48, 49>>
                           \o AT \o token_hex \o AT \o <<48, 48>> \o AT
                           \o AmountHex(amount)]

\* the exception validate_payment_requirements raises, NoExc when it returns
validate_payment_requirements(amount, token, receiver) ==
    IF amount <= 0 THEN ValueError("Amount must be positive", <<>>)
    ELSE IF ~StartsWith(receiver, ERD1) \/ Len(receiver) # ADDRESS_LENGTH
    THEN ValueError("Invalid receiver address format: ", receiver)
    ELSE IF token # EGLD /\ ~Contains(token, HYPHEN)
    THEN ValueError("Invalid token identifier format: ", token)
    ELSE NoExc

TransferMethod_AlwaysDirect(cfg, token) == cfg.TRANSFER_METHOD_DIRECT

\* the transfer method of a token: direct for the native coin
TransferMethod(cfg, token) ==
    LET is_egld == token = EGLD
    IN  IF is_egld THEN cfg.TRANSFER_METHOD_DIRECT ELSE cfg.TRANSFER_METHOD_ESDT

\* [exc, ret]: ret is the dict of gasLimit, assetTransferMethod and data_payload
enhance_payment_requirements(cfg, token, amount, receiver) ==
    LET transfer_method == TransferMethod(cfg, token)
        data_payload == _construct_transfer_data_string(token, amount, receiver)
    IN  IF data_payload.exc # NoExc THEN [exc |-> data_payload.exc, ret |-> <<>>]
        ELSE [exc |-> NoExc,
              ret |-> [gasLimit |-> calculate_gas_limit(cfg, data_payload.ret, token),
                       assetTransferMethod |-> transfer_method,
                       data_payload |-> data_payload.ret]]

\* the value of req when there is no requirement
NoReq == <<>>

\* r is a requirement
IsReq(r) == "asset" \in DOMAIN r

\* [exc, ret]: ret is the PaymentRequirements returned, NoReq when exc is raised.
\* max_timeout_seconds is None or PyInt(n).
create_payment_requirements(cfg, chain, amount, token_identifier, receiver, resource, description, max_timeout_seconds) ==
    LET invalid == validate_payment_requirements(amount, token_identifier, receiver)
        timeout == IF Truthy(max_timeout_seconds) THEN max_timeout_seconds.v
                   ELSE cfg.DEFAULT_TIMEOUT_SECONDS
        updated_reqs == enhance_payment_requirements(cfg, token_identifier, amount, receiver)
    IN  IF invalid # NoExc THEN [exc |-> invalid, ret |-> NoReq]
        ELSE IF updated_reqs.exc # NoExc THEN [exc |-> updated_reqs.exc, ret |-> NoReq]
        ELSE [exc |-> NoExc,
              ret |-> [scheme |-> MVX,
                       network |-> MVX \o COLON \o chain,
                       asset |-> token_identifier,
                       pay_to |-> receiver,
                       max_amount_required |-> IntStr(amount),
                       resource |-> resource,
                       description |-> description,
                       max_timeout_seconds |-> timeout,
                       mime_type |-> APPLICATION_JSON,
                       extra |-> [data_payload |-> updated_reqs.ret.data_payload,
                                  chain_id |-> chain,
                                  assetTransferMethod |-> updated_reqs.ret.assetTransferMethod,
                                  gasLimit |-> updated_reqs.ret.gasLimit]]]

-----------------------------------------------------------------------------
(* The Data Decoder: base64.b64decode(data).decode() and bytes.decode().   *)

\* the value of a character of the base64 alphabet, -1 for any other
B64Val(c) ==
    IF c >= 65 /\ c <= 90 THEN c - 65
    ELSE IF c >= 97 /\ c <= 122 THEN c - 71
    ELSE IF c >= 48 /\ c <= 57 THEN c + 4
    ELSE IF c = 43 THEN 62
    ELSE IF c = 47 THEN 63
    ELSE -1

\* binascii.a2b_base64 in its default (non-strict) mode.  Characters that are
\* neither of the alphabet nor "=" are skipped.  With q the number of alphabet
\* characters read so far modulo 4, a "=" ends the input when q = 3, or when
\* q = 2 and the "=" follows another "=" of the same quad; any other "=" is
\* skipped.  Without such an end, q must be 0 at the end of the input.  Four
\* characters of the alphabet give three bytes.  [ok, bytes]
A2bBase64(s) ==
    LET IsData(c) == B64Val(c) >= 0
        \* the bytes of the alphabet characters d, four characters to three bytes
        Decoded(d, ended) ==
            LET m == Len(d)
                v == [i \in 1..m |-> B64Val(d[i])]
                nbytes == ((m \div 4) * 3)
                          + (IF m % 4 = 2 THEN 1 ELSE IF m % 4 = 3 THEN 2 ELSE 0)
            IN  [ok |-> ended \/ m % 4 = 0,
                 bytes |-> [k \in 1..nbytes |->
                    LET g == 4 * ((k - 1) \div 3)
                    IN  CASE (k - 1) % 3 = 0 -> (v[g + 1] * 4) + (v[g + 2] \div 16)
                          [] (k - 1) % 3 = 1 -> ((v[g + 2] % 16) * 16) + (v[g + 3] \div 4)
                          [] OTHER -> ((v[g + 3] % 4) * 64) + v[g + 4]]]
        \* f read up to the first "=" of ends, all of it when there is none
        UpTo(f, ends) ==
            Decoded(SelectSeq(SubSeq(f, 1, IF ends = {} THEN Len(f)
                                           ELSE (CHOOSE j \in ends : \A k \in ends : j <= k) - 1),
                              IsData),
                    ends # {})
        \* f is s without the characters that are skipped
        Filtered(f) ==
            UpTo(f, {j \in 1..Len(f) :
                        /\ f[j] = 61
                        /\ LET q == Len(SelectSeq(SubSeq(f, 1, j - 1), IsData)) % 4
                           IN  q = 3 \/ (q = 2 /\ j > 1 /\ f[j - 1] = 61)})
    IN  Filtered(SelectSeq(s, LAMBDA c : c = 61 \/ B64Val(c) >= 0))

\* base64.b64decode(s) of a str: s must be ASCII, then a2b_base64.  [ok, bytes]
b64decode(s) ==
    IF \E i \in 1..Len(s) : s[i] >= 128 THEN [ok |-> FALSE, bytes |-> <<>>]
    ELSE A2bBase64(s)

\* bytes.decode() (strict UTF-8).  A byte in 128..191 continues a character;
\* every other byte starts one, must be a lead byte and must be followed by
\* exactly the continuation bytes it announces (no overlong form, no
\* surrogate, nothing above U+10FFFF).  [ok, str]
Utf8Decode(b) ==
    LET IsCont(i) == i <= Len(b) /\ b[i] >= 128 /\ b[i] <= 191
        n(i) == IF b[i] < 128 THEN 1
                ELSE IF b[i] >= 194 /\ b[i] <= 223 THEN 2
                ELSE IF b[i] >= 224 /\ b[i] <= 239 THEN 3
                ELSE IF b[i] >= 240 /\ b[i] <= 244 THEN 4
                ELSE 0
        valid(i) ==
            /\ n(i) > 0
            /\ \A k \in 1..(n(i) - 1) : IsCont(i + k)
            /\ ~IsCont(i + n(i))
            /\ (b[i] = 224 => b[i + 1] >= 160)
            /\ (b[i] = 237 => b[i + 1] <= 159)
            /\ (b[i] = 240 => b[i + 1] >= 144)
            /\ (b[i] = 244 => b[i + 1] <= 143)
        cp(i) ==
            CASE n(i) = 1 -> b[i]
              [] n(i) = 2 -> ((b[i] - 192) * 64) + (b[i + 1] - 128)
              [] n(i) = 3 -> ((b[i] - 224) * 4096) + ((b[i + 1] - 128) * 64)
                             + (b[i + 2] - 128)
              [] OTHER -> ((b[i] - 240) * 262144) + ((b[i + 1] - 128) * 4096)
                          + ((b[i + 2] - 128) * 64) + (b[i + 3] - 128)
        starts == SelectSeq([i \in 1..Len(b) |-> i], LAMBDA i : ~IsCont(i))
        ok == ~IsCont(1) /\ \A k \in 1..Len(starts) : valid(starts[k])
    IN  IF ok THEN [ok |-> TRUE, str |-> [k \in 1..Len(starts) |-> cp(starts[k])]]
        ELSE [ok |-> FALSE, str |-> <<>>]

UnicodeDecodeError == [type |-> "UnicodeDecodeError", msg |-> "", arg |-> <<>>]

LooksUnencoded_Never(text) == FALSE

\* the heuristic: data that starts with "MultiESDT" or "ESDT" is not encoded
LooksUnencoded(text) == StartsWith(text, MULTI_ESDT) \/ StartsWith(text, ESDT)

\* [exc, ret]: data is None, Str(s) or Bytes(b); ret is a str
_decode_transaction_data(data) ==
    LET \* return base64.b64decode(data).decode(), except Exception: return data
        Decoded(text, decoded) ==
            IF decoded.ok THEN [exc |-> NoExc, ret |-> decoded.str]
            ELSE [exc |-> NoExc, ret |-> text]
        B64Decoded(text, raw) ==
            IF raw.ok THEN Decoded(text, Utf8Decode(raw.bytes))
            ELSE [exc |-> NoExc, ret |-> text]
        \* data is a str from here on
        OfText(text) ==
            IF LooksUnencoded(text)
            THEN [exc |-> NoExc, ret |-> text]
            ELSE B64Decoded(text, b64decode(text))
        \* data = data.decode(), outside the try
        OfBytes(decoded) ==
            IF ~decoded.ok THEN [exc |-> UnicodeDecodeError, ret |-> <<>>]
            ELSE OfText(decoded.str)
    IN  IF ~Truthy(data) THEN [exc |-> NoExc, ret |-> <<>>]
        ELSE IF data.t = "bytes" THEN OfBytes(Utf8Decode(data.v))
        ELSE OfText(data.v)

-----------------------------------------------------------------------------
(* The Verifier.                                                           *)

\* step 1 of the verifier: the observed receiver is the payee of a native
\* requirement; the observed sender or the payee of any other
ReceiverCheck_NativeSelfTransfer(tx_data, request) ==
    LET actual_receiver == Get(tx_data, "receiver", None)
        actual_sender == Get(tx_data, "sender", None)
    IN  ~(actual_receiver # actual_sender /\ actual_receiver # Str(request.pay_to))

ReceiverCheck(tx_data, request) ==
    LET is_egld == request.asset = EGLD
        actual_receiver == Get(tx_data, "receiver", None)
        actual_sender == Get(tx_data, "sender", None)
    IN  IF is_egld THEN ~(actual_receiver # Str(request.pay_to))
        ELSE ~(actual_receiver # actual_sender /\ actual_receiver # Str(request.pay_to))

DataCheck_Undecoded(tx_data, request) ==
    LET expected_data == Get(request.extra, "data_payload", <<>>)
        actual_data_raw == Get(tx_data, "data", Str(<<>>))
    IN  [exc |-> NoExc, ok |-> ~(actual_data_raw # Str(expected_data))]

\* step 2 of the verifier: the decoded observed data is the data string of the
\* requirement.  [exc, ok]
DataCheck(tx_data, request) ==
    LET expected_data == Get(request.extra, "data_payload", <<>>)
        actual_data_raw == Get(tx_data, "data", Str(<<>>))
        Compared(actual_data) ==
            [exc |-> actual_data.exc,
             ok |-> actual_data.exc = NoExc /\ ~(actual_data.ret # expected_data)]
    IN  Compared(_decode_transaction_data(actual_data_raw))

\* step 3 of the verifier: the observed status is "success"
StatusCheck(tx_data) == ~(Get(tx_data, "status", None) # Str(SUCCESS))

\* [exc, ret]: tx_data is a dict of None, Str and Bytes values, request a
\* PaymentRequirements; ret is the boolean returned
verify_transaction_content(tx_data, request) ==
    LET \* the three steps in their order: the first that fails returns False,
        \* an exception of the data decoder leaves the call
        Steps(receiver_ok, data, status_ok) ==
            IF ~receiver_ok THEN [exc |-> NoExc, ret |-> FALSE]
            ELSE IF data.exc # NoExc THEN [exc |-> data.exc, ret |-> FALSE]
            ELSE IF ~data.ok THEN [exc |-> NoExc, ret |-> FALSE]
            ELSE IF ~status_ok THEN [exc |-> NoExc, ret |-> FALSE]
            ELSE [exc |-> NoExc, ret |-> TRUE]
    IN  Steps(ReceiverCheck(tx_data, request), DataCheck(tx_data, request),
              StatusCheck(tx_data))

\* encode_single_transfer of the Encoder: the single-token transfer opcode,
\* the hex of the token identifier and the amount field
encode_single_transfer(token, amount) ==
    IF token = EGLD THEN <<>>
    ELSE ESDT_TRANSFER \o AT \o BytesHex(Utf8Encode(token)) \o AT \o AmountHex(amount)

-----------------------------------------------------------------------------
(* construct_payment_payload (multiversx.py), with the capabilities it     *)
(* uses: the SDK's address parser and transaction factory, the signer and  *)
(* the clock.                                                              *)

\* Address.new_from_bech32(s): [exc, hex], the address as the hex of its
\* public key
new_from_bech32(s) == AddressHex(s)

bech32_Hex(h) == h

\* Address.bech32() of the address with the public key hex h
bech32(h) ==
    CASE h = AddressHex(ADDR_ZERO).hex -> ADDR_ZERO
      [] h = AddressHex(ADDR_ONE).hex -> ADDR_ONE
      [] h = AddressHex(ADDR_AB).hex -> ADDR_AB

\* s is a decimal numeral: digits only, at least one
IsDigits(s) == s # <<>> /\ \A i \in 1..Len(s) : s[i] >= 48 /\ s[i] <= 57

RECURSIVE ParseInt(_)
\* int(s) of a decimal numeral
ParseInt(s) ==
    IF s = <<>> THEN 0
    ELSE 10 * ParseInt(SubSeq(s, 1, Len(s) - 1)) + (s[Len(s)] - 48)

FactoryError == [type |-> "FactoryError", msg |-> "", arg |-> <<>>]

SignerError == [type |-> "SignerError", msg |-> "", arg |-> <<>>]

\* the value of tx and of the payload when there is none
NoTx == <<>>

\* the transaction the SDK's factory creates: a native transfer carries the
\* amount as value and no data, a token transfer carries no value and the
\* single-transfer data string
FactoryTransaction(chain, is_egld, sender, receiver, asset, amount, gas_price) ==
    [nonce |-> 0,
     value |-> IF is_egld THEN amount ELSE 0,
     sender |-> sender,
     receiver |-> receiver,
     gas_price |-> gas_price,
     gas_limit |-> 0,
     data |-> IF is_egld THEN <<>> ELSE Utf8Encode(encode_single_transfer(asset, amount)),
     chain_id |-> chain,
     version |-> 2,
     relayer |-> None,
     signature |-> <<>>]

PayloadVersion_ByRelayer(cfg, extra) ==
    IF "relayer" \in DOMAIN extra /\ extra.relayer # <<>> THEN 2 ELSE 1

\* version = 1 if transfer_method == TRANSFER_METHOD_DIRECT else 2, an absent
\* transfer method being None
PayloadVersion(cfg, extra) ==
    IF "assetTransferMethod" \in DOMAIN extra
       /\ extra.assetTransferMethod = cfg.TRANSFER_METHOD_DIRECT
    THEN 1 ELSE 2

HasRelayer_KeyPresent(extra) == "relayer" \in DOMAIN extra

\* if relayer: the extension map has a relayer that is not empty
HasRelayer(extra) == "relayer" \in DOMAIN extra /\ extra.relayer # <<>>

PayloadGasLimit_BaseCost(cfg, extra) == cfg.GAS_BASE_COST

\* requirements.extra.get("gasLimit", self.config.GAS_BASE_COST)
PayloadGasLimit(cfg, extra) == Get(extra, "gasLimit", cfg.GAS_BASE_COST)

SignatureHex_Raw(signature) == signature

\* tx.signature.hex()
SignatureHex(signature) == BytesHex(signature)

\* requirements.max_timeout_seconds or DEFAULT_TIMEOUT_SECONDS; a requirement
\* without the field has None there
PayloadTimeout(cfg, requirements) ==
    IF "max_timeout_seconds" \in DOMAIN requirements
       /\ requirements.max_timeout_seconds # 0
    THEN requirements.max_timeout_seconds
    ELSE cfg.DEFAULT_TIMEOUT_SECONDS

\* the dict of the transport fields, the relayer only when there is one
PayloadDict(cfg, requirements, tx, data_payload, now) ==
    LET fields ==
            [nonce |-> tx.nonce,
             value |-> IntStr(tx.value),
             receiver |-> bech32(tx.receiver),
             sender |-> bech32(tx.sender),
             gasPrice |-> IF tx.gas_price # 0 THEN tx.gas_price ELSE cfg.GAS_PRICE_DEFAULT,
             gasLimit |-> tx.gas_limit,
             data |-> data_payload,
             chainID |-> tx.chain_id,
             version |-> tx.version,
             signature |-> SignatureHex(tx.signature),
             validAfter |-> now - 600,
             validBefore |-> now + PayloadTimeout(cfg, requirements),
             relayer |-> Get(requirements.extra, "relayer", <<>>)]
    IN  [k \in (DOMAIN fields) \ (IF HasRelayer(requirements.extra) THEN {} ELSE {"relayer"})
            |-> fields[k]]

\* [exc, ret, tx, signer_calls]: ret is the PaymentPayload returned, tx the
\* transaction as it is when the call ends, signer_calls the number of times
\* the signer was called.  factory is the outcome of the factory call
\* [ok, gas_price], signer that of the signer call [ok, bytes], now the clock
\* reading.
construct_payment_payload(cfg, chain, requirements, signer, factory, sender_address, nonce, now) ==
    LET data_payload == Get(requirements.extra, "data_payload", <<>>)
        version == PayloadVersion(cfg, requirements.extra)
        is_egld == requirements.asset = EGLD
        Raised(exc, tx, calls) ==
            [exc |-> exc, ret |-> NoTx, tx |-> tx, signer_calls |-> calls]
        \* tx.signature = signer.sign_transaction(tx), and the payload
        Signed(tx) ==
            IF ~signer.ok THEN Raised(SignerError, tx, 1)
            ELSE [exc |-> NoExc,
                  ret |-> [x402_version |-> 1,
                           scheme |-> MVX,
                           network |-> MVX \o COLON \o chain,
                           payload |-> PayloadDict(cfg, requirements,
                                                   [tx EXCEPT !.signature = signer.bytes],
                                                   data_payload, now)],
                  tx |-> [tx EXCEPT !.signature = signer.bytes],
                  signer_calls |-> 1]
        \* if relayer: tx.relayer = Address.new_from_bech32(relayer)
        WithRelayer(tx, relayer) ==
            IF relayer.exc # NoExc THEN Raised(relayer.exc, tx, 0)
            ELSE Signed([tx EXCEPT !.relayer = Str(relayer.hex)])
        \* tx.nonce, tx.gas_limit and tx.version
        Overridden(tx) ==
            IF HasRelayer(requirements.extra)
            THEN WithRelayer(tx, new_from_bech32(requirements.extra.relayer))
            ELSE Signed(tx)
        \* the factory call, after the receiver and the amount are parsed; the
        \* data of a native transfer is the data string when there is one
        Built(sender, receiver) ==
            IF receiver.exc # NoExc THEN Raised(receiver.exc, NoTx, 0)
            ELSE IF ~IsDigits(requirements.max_amount_required)
            THEN Raised(ValueError("invalid literal for int() with base 10: ",
                                   requirements.max_amount_required), NoTx, 0)
            ELSE IF ~factory.ok THEN Raised(FactoryError, NoTx, 0)
            ELSE Overridden(
                    [FactoryTransaction(chain, is_egld, sender.hex, receiver.hex,
                                        requirements.asset,
                                        ParseInt(requirements.max_amount_required),
                                        factory.gas_price)
                     EXCEPT !.data = IF is_egld /\ data_payload # <<>>
                                     THEN Utf8Encode(data_payload) ELSE @,
                            !.nonce = nonce,
                            !.gas_limit = PayloadGasLimit(cfg, requirements.extra),
                            !.version = version])
        \* sender_addr_obj = Address.new_from_bech32(sender_address)
        WithSender(sender) ==
            IF sender.exc # NoExc THEN Raised(sender.exc, NoTx, 0)
            ELSE Built(sender, new_from_bech32(requirements.pay_to))
    IN  WithSender(new_from_bech32(sender_address))

-----------------------------------------------------------------------------
(* MultiversXServerExecutor.verify_payment (multiversx_executor.py).       *)

\* VerifyResponse(is_valid, invalid_reason): the reason is a message and what
\* is formatted into it
VerifyResponse(is_valid, msg, arg) ==
    [is_valid |-> is_valid, invalid_reason |-> [msg |-> msg, arg |-> arg]]

verify_payment_NetworkFirst(chain, payload, requirements) ==
    IF payload.network # MVX \o COLON \o chain
    THEN VerifyResponse(FALSE, "Invalid network: expected mvx:", chain)
    ELSE IF payload.scheme # MVX
    THEN VerifyResponse(FALSE, "Invalid scheme: expected 'mvx'", <<>>)
    ELSE IF payload.payload = <<>>
    THEN VerifyResponse(FALSE, "Empty payload", <<>>)
    ELSE VerifyResponse(TRUE, "None", <<>>)

\* chain is the chain id of the scheme of the executor; payload.payload is a
\* dict, the empty one being falsy
verify_payment(chain, payload, requirements) ==
    IF payload.scheme # MVX
    THEN VerifyResponse(FALSE, "Invalid scheme: expected 'mvx'", <<>>)
    ELSE IF payload.network # MVX \o COLON \o chain
    THEN VerifyResponse(FALSE, "Invalid network: expected mvx:", chain)
    ELSE IF payload.payload = <<>>
    THEN VerifyResponse(FALSE, "Empty payload", <<>>)
    ELSE VerifyResponse(TRUE, "None", <<>>)

-----------------------------------------------------------------------------
(* resolve_did_to_address and parse_price (multiversx.py).                 *)

DID == <<100, 105, 100>>                        \* "did"
PKH == <<112, 107, 104>>                        \* "pkh"

\* s.split(":"): the segments between the colons, one more than there are
\* colons
Split(s) ==
    LET colons == SelectSeq([i \in 1..Len(s) |-> i], LAMBDA i : s[i] = COLON[1])
        bounds == <<0>> \o colons \o <<Len(s) + 1>>
    IN  [k \in 1..(Len(colons) + 1) |-> SubSeq(s, bounds[k] + 1, bounds[k + 1] - 1)]

DidAddress_ChainId(parts) == parts[4]

\* parts[4], counted from 0
DidAddress(parts) == parts[5]

\* [exc, ret]: ret is the address of the DID
resolve_did_to_address(did) ==
    LET Resolved(parts) ==
            IF Len(parts) >= 5 /\ parts[2] = PKH /\ parts[3] = MVX
            THEN [exc |-> NoExc, ret |-> DidAddress(parts)]
            ELSE [exc |-> ValueError("Invalid MultiversX DID: ", did), ret |-> <<>>]
    IN  Resolved(Split(did))

\* the precision of the decimal module's default context, in digits
DECIMAL_PREC == 28

\* digits without its leading zeros, "0" when nothing is left
StripZeros(digits) ==
    LET nonzero == {i \in 1..Len(digits) : digits[i] # 48}
    IN  IF nonzero = {} THEN <<48>>
        ELSE SubSeq(digits, CHOOSE i \in nonzero : \A j \in nonzero : i <= j, Len(digits))

\* the numeral of the number after the one digits is the numeral of
Increment(digits) ==
    LET not9 == {i \in 1..Len(digits) : digits[i] # 57}
    IN  IF not9 = {} THEN <<49>> \o Rep(48, Len(digits))
        ELSE LET j == CHOOSE i \in not9 : \A k \in not9 : k <= i
             IN  [i \in 1..Len(digits) |->
                    IF i < j THEN digits[i] ELSE IF i = j THEN digits[j] + 1 ELSE 48]

\* a text as Decimal(text) and int(text) read it: [ok, neg, int, frac], an
\* optional sign, digits, and after an optional point more digits; at least
\* one digit in all
ReadNumber(text) ==
    LET signed == text # <<>> /\ text[1] \in {43, 45}
        body == IF signed THEN SubSeq(text, 2, Len(text)) ELSE text
        points == {i \in 1..Len(body) : body[i] = 46}
        point == IF points = {} THEN Len(body) + 1 ELSE CHOOSE i \in points : TRUE
        digits == SubSeq(body, 1, point - 1) \o SubSeq(body, point + 1, Len(body))
    IN  [ok |-> Cardinality(points) <= 1 /\ IsDigits(digits),
         neg |-> signed /\ text[1] = 45,
         int |-> SubSeq(body, 1, point - 1),
         frac |-> SubSeq(body, point + 1, Len(body))]

\* a Decimal [coef, exp] in the default context: a coefficient of more than
\* DECIMAL_PREC digits is rounded to DECIMAL_PREC digits, half to even
RoundToContext(coef, exp) ==
    IF Len(coef) <= DECIMAL_PREC THEN [coef |-> coef, exp |-> exp]
    ELSE LET kept == SubSeq(coef, 1, DECIMAL_PREC)
             first == coef[DECIMAL_PREC + 1]
             rest == SubSeq(coef, DECIMAL_PREC + 2, Len(coef))
             up == \/ first > 53
                   \/ first = 53 /\ rest # Rep(48, Len(rest))
                   \/ first = 53 /\ rest = Rep(48, Len(rest))
                      /\ (kept[DECIMAL_PREC] - 48) % 2 = 1
         IN  [coef |-> IF up THEN Increment(kept) ELSE kept,
              exp |-> exp + (Len(coef) - DECIMAL_PREC)]

\* int(d) of a Decimal [coef, exp], as a numeral: the digits before the point
DecimalToInt(d) ==
    IF d.exp >= 0 THEN StripZeros(d.coef \o Rep(48, d.exp))
    ELSE IF -d.exp >= Len(d.coef) THEN <<48>>
    ELSE StripZeros(SubSeq(d.coef, 1, Len(d.coef) + d.exp))

\* the numeral of an int with the digits magnitude: no "-" in front of a zero
Numeral(neg, magnitude) ==
    IF neg /\ magnitude # <<48>> THEN <<45>> \o magnitude ELSE magnitude

\* Decimal(amount_str) * (10 ** decimals): the exact product, rounded to the
\* context
Scaled(n, decimals) ==
    RoundToContext(StripZeros(n.int \o n.frac) \o Rep(48, decimals), -Len(n.frac))

\* [exc, ret]: ret is the int returned, as its decimal numeral
parse_price(amount_str, decimals) ==
    LET Parsed(n) ==
            IF ~n.ok \/ (~Contains(amount_str, <<46>>) /\ n.int = <<>>)
            THEN [exc |-> ValueError("Invalid price format: ", amount_str), ret |-> <<>>]
            ELSE IF Contains(amount_str, <<46>>)
            THEN [exc |-> NoExc, ret |-> Numeral(n.neg, DecimalToInt(Scaled(n, decimals)))]
            ELSE [exc |-> NoExc, ret |-> Numeral(n.neg, StripZeros(n.int))]
    IN  Parsed(ReadNumber(amount_str))

-----------------------------------------------------------------------------
(* The inputs the operations are called with.                              *)

USDC == <<85, 83, 68, 67, 45, 99, 55, 54, 102, 49, 102>>                     \* "USDC-c76f1f"
INVALIDTOKEN == <<73, 78, 86, 65, 76, 73, 68, 84, 79, 75, 69, 78>>     \* "INVALIDTOKEN"
TWO_HYPHENS == <<65, 45, 66, 45, 67>>       \* "A-B-C"

Tokens == {EGLD, USDC, INVALIDTOKEN, TWO_HYPHENS}

\* "erd1receiver" + "a" * 50: the prefix and the length of an address, but no
\* valid bech32 checksum
RECEIVER_A50 == <<101, 114, 100, 49, 114, 101, 99, 101, 105, 118, 101, 114>> \o Rep(97, 50)
ERD1_REC == <<101, 114, 100, 49, 114, 101, 99>>              \* "erd1rec"
INVALID_BECH32 == <<105, 110, 118, 97, 108, 105, 100, 95, 98, 101, 99, 104, 51, 50>> \* "invalid_bech32"
\* "erd1" + "a" * 59: one character too long
ERD1_63 == ERD1 \o Rep(97, 59)
\* "a" * 62: the length of an address without its prefix
NO_PREFIX_62 == Rep(97, 62)

Receivers == {ADDR_ZERO, RECEIVER_A50, ERD1_REC, INVALID_BECH32, ERD1_63, NO_PREFIX_62}

\* the amounts create_payment_requirements is called with
Amounts == {-100, 0, 1, 100}

\* the amounts the encoders are called with
EncoderAmounts == (1..MaxAmount) \cup {100, 255, 256, 4095, 4096, 65535, 65536, 1000000}

Timeouts == {None, PyInt(0), PyInt(30), PyInt(-700)}

CHAIN_1 == <<49>>                  \* "1", the mainnet
CHAIN_D == <<68>>                  \* "D", the devnet

\* the scheme instances: chain id, and the environment the config is loaded
\* from (the empty one gives the defaults; no value is range-checked)
Instances ==
    {<<CHAIN_D, <<>>>>,
     <<CHAIN_1, [MVX_GAS_BASE_COST |-> 99999]>>,
     <<CHAIN_D, [MVX_GAS_BASE_COST |-> -20000000, MVX_GAS_PER_BYTE |-> 0]>>}

HELLO == <<104, 101, 108, 108, 111>>                   \* "hello"
B64_HELLO == <<97, 71, 86, 115, 98, 71, 56, 61>>            \* "aGVsbG8=", base64 of "hello"
WRONG_DATA == <<119, 114, 111, 110, 103, 45, 100, 97, 116, 97>>         \* "wrong-data"
FAIL == <<102, 97, 105, 108>>                     \* "fail"
E_ACUTE == <<233>>                 \* "é": one character, two bytes of UTF-8

\* the data strings the gas estimator is called with
GasData == {Rep(97, n) : n \in 0..MaxDataLen} \cup {E_ACUTE, E_ACUTE \o E_ACUTE}

\* requirements as a payer or a test hands them to the verifier: with a memo
\* as data string (one of them a memo that is itself valid base64), and with
\* an extension map stripped of its data string
HandmadeRequests ==
    {[asset |-> EGLD, pay_to |-> ADDR_ZERO, max_amount_required |-> IntStr(100),
      extra |-> [data_payload |-> HELLO]],
     [asset |-> EGLD, pay_to |-> ADDR_ZERO, max_amount_required |-> IntStr(100),
      extra |-> [data_payload |-> B64_HELLO]],
     [asset |-> EGLD, pay_to |-> ADDR_ZERO, max_amount_required |-> IntStr(100),
      extra |-> <<>>],
     [asset |-> USDC, pay_to |-> ADDR_ZERO, max_amount_required |-> IntStr(100),
      extra |-> <<>>]}

\* a field of the observed transaction that is not there
Absent == [t |-> "absent", v |-> <<>>]

\* the dict of the fields that are there
TxData(receiver, sender, data, status, value) ==
    LET fields == [receiver |-> receiver, sender |-> sender, data |-> data,
                   status |-> status, value |-> value]
    IN  [k \in {f \in DOMAIN fields : fields[f] # Absent} |-> fields[k]]

\* the transactions a network provider reports back for a request
Observed(request) ==
    LET expected == Get(request.extra, "data_payload", <<>>)
    IN  {TxData(r, s, d, st, v) :
            r \in {Absent, Str(request.pay_to), Str(ADDR_AB)},
            s \in {Absent, Str(ADDR_AB)},
            d \in {Absent, None, Str(expected), Str(B64_HELLO), Str(WRONG_DATA),
                   Bytes(Utf8Encode(expected)), Bytes(<<255>>)},
            st \in {Absent, Str(SUCCESS), Str(FAIL)},
            v \in {Str(request.max_amount_required), Str(IntStr(1))}}

-----------------------------------------------------------------------------
(* The inputs of construct_payment_payload, resolve_did_to_address,        *)
(* parse_price and the Data Decoder.                                       *)

\* the extension maps of the requirements a payer is handed: stripped, of a
\* native and of a token transfer, with a relayer, with an empty relayer and
\* with a relayer that is no address
PayloadExtras ==
    {<<>>,
     [assetTransferMethod |-> DIRECT, data_payload |-> <<>>, gasLimit |-> 500000],
     [assetTransferMethod |-> ESDT_METHOD, data_payload |-> <<>>, gasLimit |-> 500000,
      relayer |-> ADDR_ONE],
     [assetTransferMethod |-> DIRECT, data_payload |-> HELLO, relayer |-> ADDR_ONE],
     [assetTransferMethod |-> ESDT_METHOD, data_payload |-> HELLO],
     [assetTransferMethod |-> DIRECT, relayer |-> <<>>],
     [assetTransferMethod |-> ESDT_METHOD, relayer |-> RECEIVER_A50]}

\* requirements handed to construct_payment_payload; the last ones have no
\* timeout
PayloadRequests ==
    {[asset |-> a, pay_to |-> ADDR_ZERO, max_amount_required |-> IntStr(100),
      max_timeout_seconds |-> t, extra |-> e] :
        a \in {EGLD, USDC}, t \in {0, 30}, e \in PayloadExtras}
    \cup {[asset |-> a, pay_to |-> ADDR_ZERO, max_amount_required |-> IntStr(100),
           extra |-> <<>>] : a \in {EGLD, USDC}}

Senders == {ADDR_AB, ERD1_REC}

Nonces == {0, 10}

\* the readings of the clock
Clock == {1000, 1700000000}

\* what the factory call does: it raises, or it returns a transaction without
\* or with a gas price
FactoryOutcomes ==
    {[ok |-> FALSE, gas_price |-> 0], [ok |-> TRUE, gas_price |-> 0],
     [ok |-> TRUE, gas_price |-> 1000000000]}

\* what the signer does: it raises, or it returns the bytes aa bb cc or the
\* bytes 00 01 ff
SignerOutcomes ==
    {[ok |-> FALSE, bytes |-> <<>>], [ok |-> TRUE, bytes |-> <<170, 187, 204>>],
     [ok |-> TRUE, bytes |-> <<0, 1, 255>>]}

RECURSIVE JoinColon(_)
\* ":".join(parts)
JoinColon(parts) ==
    IF Len(parts) = 0 THEN <<>>
    ELSE IF Len(parts) = 1 THEN parts[1]
    ELSE parts[1] \o COLON \o JoinColon(Tail(parts))

\* f"did:pkh:mvx:{chain}:{address}"
DidOf(chain, address) == JoinColon(<<DID, PKH, MVX, chain, address>>)

ERD1_ALICE == <<101, 114, 100, 49, 97, 108, 105, 99, 101>>    \* "erd1alice"
ETH == <<101, 116, 104>>    \* "eth"
ADDR_0X1234 == <<48, 120, 49, 50, 51, 52>>    \* "0x1234"
WEB == <<119, 101, 98>>    \* "web"
ERD1_ABC == <<101, 114, 100, 49, 97, 98, 99>>    \* "erd1abc"
KEY == <<107, 101, 121>>    \* "key"
Z123 == <<122, 49, 50, 51>>    \* "z123"
XXX == <<120, 120, 120>>    \* "xxx"
EXTRA == <<101, 120, 116, 114, 97>>    \* "extra"

DidChains == {CHAIN_1, CHAIN_D}

DidAddresses == {ADDR_ZERO, ADDR_AB, ERD1_ALICE}

\* the DIDs of the addresses, and strings of other shapes
Dids ==
    {DidOf(c, a) : c \in DidChains, a \in DidAddresses}
    \cup {JoinColon(<<DID, PKH, ETH, CHAIN_1, ADDR_0X1234>>),
          JoinColon(<<DID, PKH, MVX>>),
          JoinColon(<<DID, PKH, MVX, CHAIN_1>>),
          JoinColon(<<DID, WEB, MVX, CHAIN_D, ERD1_ABC>>),
          JoinColon(<<DID, KEY, Z123>>),
          JoinColon(<<XXX, PKH, MVX, CHAIN_1, ADDR_ZERO>>),
          JoinColon(<<DID, PKH, MVX, CHAIN_1, ADDR_ZERO, EXTRA>>),
          JoinColon(<<DID, PKH, MVX, CHAIN_1, <<>>>>),
          <<>>}

P_1_0 == <<49, 46, 48>>    \* "1.0"
P_0_1 == <<48, 46, 49>>    \* "0.1"
P_0 == <<48>>    \* "0"
P_1E18 == <<49, 48, 48, 48, 48, 48, 48, 48, 48, 48, 48, 48, 48, 48, 48, 48, 48, 48, 48>>    \* "1000000000000000000"
P_1_5 == <<49, 46, 53>>    \* "1.5"
P_NOT_A_NUMBER == <<110, 111, 116, 45, 97, 45, 110, 117, 109, 98, 101, 114>>    \* "not-a-number"
P_TWO_POINTS == <<49, 46, 50, 46, 51>>    \* "1.2.3"
P_MINUS_0_5 == <<45, 48, 46, 53>>    \* "-0.5"
P_POINT == <<46>>    \* "."
P_POINT_5 == <<46, 53>>    \* ".5"
P_007 == <<48, 48, 55>>    \* "007"
P_29_DIGITS == <<49, 50, 51, 52, 53, 54, 55, 56, 57, 48, 49, 46, 49, 50, 51, 52, 53, 54, 55, 56, 57, 48, 49, 50, 51, 52, 53, 54, 55, 56>>    \* "12345678901.123456789012345678"
P_HALF == <<48, 46, 57, 57, 57, 57, 57, 57, 57, 57, 57, 57, 57, 57, 57, 57, 57, 57, 57, 57, 57, 57, 57, 57, 57, 57, 57, 57, 57, 57, 53>>    \* "0.99999999999999999999999999995"
P_30_DIGITS == <<49, 50, 51, 52, 53, 54, 55, 56, 57, 48, 49, 50, 51, 52, 53, 54, 55, 56, 57, 48, 49, 50, 51, 52, 53, 54, 55, 56, 57, 49, 46, 53>>    \* "123456789012345678901234567891.5"

\* the amount texts: of the tests, unparsable ones, and texts of more than
\* DECIMAL_PREC significant digits
Prices ==
    {<<>>, P_1_0, P_0_1, P_0, P_1E18, P_1_5, P_NOT_A_NUMBER, P_TWO_POINTS, P_MINUS_0_5, P_POINT, P_POINT_5, P_007, P_29_DIGITS, P_HALF, P_30_DIGITS}

Decimals == {0, 6, 18}

PLAIN_TEXT == <<112, 108, 97, 105, 110, 45, 116, 101, 120, 116, 45, 110, 111, 116, 45, 98, 97, 115, 101, 54, 52, 33, 33, 33>>    \* "plain-text-not-base64!!!"

\* the data the Data Decoder is called with: None, strings and bytes; the last
\* are bytes that are no UTF-8
\* base64.b64encode(b).decode(): three bytes to four characters, "=" for the
\* bytes the last group lacks
b64encode(b) ==
    LET n == Len(b)
        at(i) == IF i <= n THEN b[i] ELSE 0
        char(v) == IF v < 26 THEN 65 + v
                   ELSE IF v < 52 THEN 71 + v
                   ELSE IF v < 62 THEN v - 4
                   ELSE IF v = 62 THEN 43 ELSE 47
    IN  [p \in 1..(4 * ((n + 2) \div 3)) |->
            LET g == 3 * ((p - 1) \div 4)
            IN  CASE (p - 1) % 4 = 0 -> char(at(g + 1) \div 4)
                  [] (p - 1) % 4 = 1 -> char(((at(g + 1) % 4) * 16) + (at(g + 2) \div 16))
                  [] (p - 1) % 4 = 2 ->
                        IF g + 2 > n THEN 61
                        ELSE char(((at(g + 2) % 16) * 4) + (at(g + 3) \div 64))
                  [] OTHER -> IF g + 3 > n THEN 61 ELSE char(at(g + 3) % 64)]

\* a text whose base64 is "ESDTgA==": U+0011, a space and U+04C0
DC1_SPACE_PALOCHKA == <<17, 32, 1216>>

\* the texts that are given to the decoder in base64
DecoderTexts ==
    {<<>>, HELLO, E_ACUTE, PLAIN_TEXT, MULTI_ESDT_NFT_TRANSFER \o AT \o HELLO,
     ESDT_TRANSFER \o AT \o HELLO, DC1_SPACE_PALOCHKA}

DecoderData ==
    {None, Str(<<>>), Bytes(<<>>), Str(HELLO), Str(B64_HELLO), Bytes(Utf8Encode(B64_HELLO)),
     Str(PLAIN_TEXT), Str(E_ACUTE), Str(MULTI_ESDT_NFT_TRANSFER \o AT \o HELLO),
     Bytes(Utf8Encode(MULTI_ESDT_NFT_TRANSFER \o AT \o HELLO)),
     Str(ESDT_TRANSFER \o AT \o HELLO), Bytes(<<255>>), Bytes(<<104, 105, 192>>)}
    \cup {Str(b64encode(Utf8Encode(x))) : x \in DecoderTexts}
    \cup {Bytes(Utf8Encode(b64encode(Utf8Encode(x)))) : x \in DecoderTexts}

-----------------------------------------------------------------------------
(* The state machine: a scheme instance and the payment attempts made on   *)
(* it, one after the other.  call is the last call of the current attempt  *)
(* with its arguments and its outcome (the exception raised or the value   *)
(* returned); req is the requirement the attempt is about.                 *)

Idle == [op |-> "idle", args |-> <<>>, exc |-> NoExc, ret |-> <<>>]

\* the calls that may be in progress on the instance at the same time
NumAttempts == 2

Attempts == 1..NumAttempts

\* an attempt no call was made for: op is the method called, pc the place the
\* call has reached, in its arguments as they were passed, requirements and
\* tx_data the objects passed as they are now, locals the local variables,
\* exc and ret the outcome, concurrent whether another call was in progress
\* during this one
Free ==
    [op |-> "none", pc |-> "free", in |-> <<>>, requirements |-> NoReq, tx_data |-> <<>>,
     locals |-> <<>>, exc |-> NoExc, ret |-> <<>>, concurrent |-> FALSE]

\* MultiversXScheme(chain_id, config)
Init ==
    /\ \E i \in Instances : chain_id = i[1] /\ config = from_env(i[2])
    /\ req = NoReq
    /\ call = Idle
    /\ signer_calls = 0
    /\ attempts = [a \in Attempts |-> Free]
    /\ txs = [a \in Attempts |-> NoTx]

\* the merchant builds the requirement of a new attempt
CreatePaymentRequirements ==
    /\ call.op = "idle"
    /\ \E amount \in Amounts, token \in Tokens, receiver \in Receivers, timeout \in Timeouts :
        LET r == create_payment_requirements(config, chain_id, amount, token, receiver,
                                             <<>>, <<>>, timeout)
        IN  /\ call' = [op |-> "create_payment_requirements",
                        args |-> [amount |-> amount, token_identifier |-> token,
                                  receiver |-> receiver, max_timeout_seconds |-> timeout],
                        exc |-> r.exc, ret |-> r.ret]
            /\ req' = r.ret
    /\ UNCHANGED <<attempts, txs, chain_id, config, signer_calls>>

\* the merchant verifies an observed transaction against the requirement it
\* built
VerifyCreated ==
    /\ call.op = "create_payment_requirements"
    /\ IsReq(req)
    /\ \E tx_data \in Observed(req) :
        LET r == verify_transaction_content(tx_data, req)
        IN  call' = [op |-> "verify_transaction_content",
                     args |-> [tx_data |-> tx_data],
                     exc |-> r.exc, ret |-> r.ret]
    /\ UNCHANGED <<attempts, txs, chain_id, config, req, signer_calls>>

\* the merchant verifies an observed transaction against a requirement handed
\* to it
VerifyHandmade ==
    /\ call.op = "idle"
    /\ \E request \in HandmadeRequests :
        \E tx_data \in Observed(request) :
            LET r == verify_transaction_content(tx_data, request)
            IN  /\ call' = [op |-> "verify_transaction_content",
                            args |-> [tx_data |-> tx_data],
                            exc |-> r.exc, ret |-> r.ret]
                /\ req' = request
    /\ UNCHANGED <<attempts, txs, chain_id, config, signer_calls>>

CalculateGasLimit ==
    /\ call.op = "idle"
    /\ \E data_string \in GasData, token \in {EGLD, USDC} :
        call' = [op |-> "calculate_gas_limit",
                 args |-> [data_string |-> data_string, token_identifier |-> token],
                 exc |-> NoExc,
                 ret |-> calculate_gas_limit(config, data_string, token)]
    /\ UNCHANGED <<attempts, txs, chain_id, config, req, signer_calls>>

\* encode_multi_transfer of the Encoder
ConstructTransferDataString ==
    /\ call.op = "idle"
    /\ \E token \in Tokens, amount \in EncoderAmounts,
          receiver \in {ADDR_ZERO, ADDR_ONE, RECEIVER_A50} :
        LET r == _construct_transfer_data_string(token, amount, receiver)
        IN  call' = [op |-> "_construct_transfer_data_string",
                     args |-> [token |-> token, amount |-> amount, receiver |-> receiver],
                     exc |-> r.exc, ret |-> r.ret]
    /\ UNCHANGED <<attempts, txs, chain_id, config, req, signer_calls>>

EncodeSingleTransfer ==
    /\ call.op = "idle"
    /\ \E token \in Tokens, amount \in EncoderAmounts :
        call' = [op |-> "encode_single_transfer",
                 args |-> [token |-> token, amount |-> amount],
                 exc |-> NoExc,
                 ret |-> encode_single_transfer(token, amount)]
    /\ UNCHANGED <<attempts, txs, chain_id, config, req, signer_calls>>

\* the payer constructs the payload of the requirement the merchant built
ConstructCreated ==
    /\ call.op = "create_payment_requirements"
    /\ IsReq(req)
    /\ \E signer \in SignerOutcomes, factory \in FactoryOutcomes, sender_address \in Senders,
          nonce \in Nonces, now \in Clock :
        LET r == construct_payment_payload(config, chain_id, req, signer, factory,
                                           sender_address, nonce, now)
        IN  /\ call' = [op |-> "construct_payment_payload",
                        args |-> [signer |-> signer, factory |-> factory,
                                  sender_address |-> sender_address, nonce |-> nonce,
                                  now |-> now],
                        exc |-> r.exc, ret |-> r.ret, tx |-> r.tx]
            /\ signer_calls' = signer_calls + r.signer_calls
    /\ UNCHANGED <<attempts, txs, chain_id, config, req>>

\* the payer constructs the payload of a requirement handed to it
ConstructHandmade ==
    /\ call.op = "idle"
    /\ \E requirements \in PayloadRequests, signer \in SignerOutcomes,
          factory \in FactoryOutcomes, sender_address \in Senders, nonce \in Nonces,
          now \in Clock :
        LET r == construct_payment_payload(config, chain_id, requirements, signer, factory,
                                           sender_address, nonce, now)
        IN  /\ call' = [op |-> "construct_payment_payload",
                        args |-> [signer |-> signer, factory |-> factory,
                                  sender_address |-> sender_address, nonce |-> nonce,
                                  now |-> now],
                        exc |-> r.exc, ret |-> r.ret, tx |-> r.tx]
            /\ req' = requirements
            /\ signer_calls' = signer_calls + r.signer_calls
    /\ UNCHANGED <<attempts, txs, chain_id, config>>

\* the transactions a network provider reports back for a payload that was
\* broadcast: its receiver, sender and value, its data raw or in base64, and
\* a status
Broadcast(payload) ==
    {TxData(Str(payload.receiver), Str(payload.sender), Str(d), st, Str(payload.value)) :
        d \in {payload.data, b64encode(Utf8Encode(payload.data))},
        st \in {Absent, Str(SUCCESS), Str(FAIL)}}

\* the merchant verifies the transaction of the payload against the
\* requirement the payload was constructed from
VerifyConstructed ==
    /\ call.op = "construct_payment_payload"
    /\ call.exc = NoExc
    /\ \E tx_data \in Broadcast(call.ret.payload) :
        LET r == verify_transaction_content(tx_data, req)
        IN  call' = [op |-> "verify_transaction_content",
                     args |-> [tx_data |-> tx_data, payload |-> call.ret.payload],
                     exc |-> r.exc, ret |-> r.ret]
    /\ UNCHANGED <<attempts, txs, chain_id, config, req, signer_calls>>

EXACT == <<101, 120, 97, 99, 116>>                 \* "exact"

\* the payloads an executor is given to verify: of this scheme and of another,
\* of either chain and of no chain, with and without transport fields
ExecutorPayloads ==
    {[x402_version |-> 1, scheme |-> s, network |-> n, payload |-> p] :
        s \in {MVX, EXACT},
        n \in {MVX \o COLON \o CHAIN_1, MVX \o COLON \o CHAIN_D, MVX},
        p \in {<<>>, [nonce |-> 10, signature |-> <<97, 97, 98, 98, 99, 99>>]}}

\* MultiversXServerExecutor(delegate, config, chain_id).verify_payment
VerifyPayment ==
    /\ call.op = "idle"
    /\ \E payload \in ExecutorPayloads, requirements \in HandmadeRequests :
        call' = [op |-> "verify_payment",
                 args |-> [payload |-> payload, requirements |-> requirements],
                 exc |-> NoExc,
                 ret |-> verify_payment(chain_id, payload, requirements)]
    /\ UNCHANGED <<attempts, txs, chain_id, config, req, signer_calls>>

ResolveDidToAddress ==
    /\ call.op = "idle"
    /\ \E did \in Dids :
        LET r == resolve_did_to_address(did)
        IN  call' = [op |-> "resolve_did_to_address", args |-> [did |-> did],
                     exc |-> r.exc, ret |-> r.ret]
    /\ UNCHANGED <<attempts, txs, chain_id, config, req, signer_calls>>

ParsePrice ==
    /\ call.op = "idle"
    /\ \E amount_str \in Prices, decimals \in Decimals :
        LET r == parse_price(amount_str, decimals)
        IN  call' = [op |-> "parse_price",
                     args |-> [amount_str |-> amount_str, decimals |-> decimals],
                     exc |-> r.exc, ret |-> r.ret]
    /\ UNCHANGED <<attempts, txs, chain_id, config, req, signer_calls>>

DecodeTransactionData ==
    /\ call.op = "idle"
    /\ \E data \in DecoderData :
        LET r == _decode_transaction_data(data)
        IN  call' = [op |-> "_decode_transaction_data", args |-> [data |-> data],
                     exc |-> r.exc, ret |-> r.ret]
    /\ UNCHANGED <<attempts, txs, chain_id, config, req, signer_calls>>

\* the attempt is over: the caller drops the requirement and the result
Finish ==
    /\ call.op # "idle"
    /\ call' = Idle
    /\ req' = NoReq
    /\ signer_calls' = 0
    /\ UNCHANGED <<attempts, txs, chain_id, config>>

Next ==
    \/ CreatePaymentRequirements
    \/ VerifyCreated
    \/ VerifyHandmade
    \/ CalculateGasLimit
    \/ ConstructTransferDataString
    \/ EncodeSingleTransfer
    \/ ConstructCreated
    \/ ConstructHandmade
    \/ VerifyConstructed
    \/ VerifyPayment
    \/ ResolveDidToAddress
    \/ ParsePrice
    \/ DecodeTransactionData
    \/ Finish

Spec == Init /\ [][Next]_vars

-----------------------------------------------------------------------------
(* The calls in progress together: each call of create_payment_requirements, *)
(* construct_payment_payload and verify_transaction_content advances by    *)
(* steps, and between two steps of one call any other call may take its    *)
(* own.  What a step reads of the instance (chain_id, config) and of the   *)
(* objects it was passed it reads when it is taken.                        *)

\* the arguments of the calls made together
ConcurrentCreates ==
    {[amount |-> 100, token_identifier |-> USDC, receiver |-> ADDR_ZERO,
      max_timeout_seconds |-> PyInt(30)],
     [amount |-> 0, token_identifier |-> EGLD, receiver |-> ADDR_ZERO,
      max_timeout_seconds |-> None],
     [amount |-> 1, token_identifier |-> USDC, receiver |-> RECEIVER_A50,
      max_timeout_seconds |-> None]}

REQUEST_EGLD_RELAYED ==
    [asset |-> EGLD, pay_to |-> ADDR_ZERO, max_amount_required |-> IntStr(100),
     max_timeout_seconds |-> 30,
     extra |-> [assetTransferMethod |-> DIRECT, data_payload |-> HELLO,
                relayer |-> ADDR_ONE]]

REQUEST_USDC_BARE ==
    [asset |-> USDC, pay_to |-> ADDR_ZERO, max_amount_required |-> IntStr(100),
     extra |-> <<>>]

REQUEST_EGLD_HELLO ==
    [asset |-> EGLD, pay_to |-> ADDR_ZERO, max_amount_required |-> IntStr(100),
     extra |-> [data_payload |-> HELLO]]

SIGNER_AABBCC == [ok |-> TRUE, bytes |-> <<170, 187, 204>>]

SIGNER_FAILING == [ok |-> FALSE, bytes |-> <<>>]

ConcurrentConstruct(requirements, signer, nonce) ==
    [requirements |-> requirements, signer |-> signer,
     factory |-> [ok |-> TRUE, gas_price |-> 0],
     sender_address |-> ADDR_AB, nonce |-> nonce, now |-> 1000]

ConcurrentConstructs ==
    {ConcurrentConstruct(REQUEST_EGLD_RELAYED, SIGNER_AABBCC, 0),
     ConcurrentConstruct(REQUEST_USDC_BARE, SIGNER_AABBCC, 10),
     ConcurrentConstruct(REQUEST_USDC_BARE, SIGNER_FAILING, 0),
     ConcurrentConstruct(REQUEST_EGLD_RELAYED, SIGNER_AABBCC, 10)}

ConcurrentVerifies ==
    {[request |-> REQUEST_EGLD_HELLO,
      tx_data |-> TxData(Str(ADDR_ZERO), Str(ADDR_AB), Str(HELLO), Str(SUCCESS), Absent)],
     [request |-> REQUEST_USDC_BARE,
      tx_data |-> TxData(Str(ADDR_ZERO), Str(ADDR_AB), Str(HELLO), Str(SUCCESS), Absent)],
     [request |-> REQUEST_USDC_BARE,
      tx_data |-> TxData(Absent, Absent, Absent, Str(SUCCESS), Absent)],
     [request |-> REQUEST_EGLD_HELLO,
      tx_data |-> TxData(Str(ADDR_ZERO), Str(ADDR_AB), Bytes(<<255>>), Str(FAIL), Absent)]}

DictAfterGet_SetDefault(d, key, default) ==
    [k \in (DOMAIN d) \cup {key} |-> IF k \in DOMAIN d THEN d[k] ELSE default]

\* the dict after d.get(key, default): as it was
DictAfterGet(d, key, default) == d

TxSlot_Shared(a) == 1

\* tx is a local variable of the call: every call has its own
TxSlot(a) == a

\* a call is in progress for the attempt
Running(a) == attempts[a].pc \notin {"free", "done"}

\* the call op begins for the attempt a
Begin(a, op, pc, in, requirements, tx_data) ==
    /\ attempts[a].pc = "free"
    /\ attempts' =
        [b \in Attempts |->
            IF b = a
            THEN [Free EXCEPT !.op = op, !.pc = pc, !.in = in,
                              !.requirements = requirements, !.tx_data = tx_data,
                              !.concurrent = \E c \in Attempts \ {a} : Running(c)]
            ELSE IF Running(b) THEN [attempts[b] EXCEPT !.concurrent = TRUE]
            ELSE attempts[b]]

\* the call of the attempt a goes on to pc with the locals and the
\* requirement given
Goto(a, pc, locals, requirements) ==
    attempts' = [attempts EXCEPT ![a].pc = pc, ![a].locals = locals,
                                 ![a].requirements = requirements]

\* the call of the attempt a ends
Done(a, exc, ret) ==
    attempts' = [attempts EXCEPT ![a].pc = "done", ![a].exc = exc, ![a].ret = ret]

CreateBegin(a) ==
    /\ \E in \in ConcurrentCreates :
        Begin(a, "create_payment_requirements", "validate", in, NoReq, <<>>)
    /\ UNCHANGED <<txs, chain_id, config, req, call, signer_calls>>

\* self.validate_payment_requirements(amount, token_identifier, receiver) and
\* the timeout
CreateValidate(a) ==
    /\ attempts[a].op = "create_payment_requirements"
    /\ attempts[a].pc = "validate"
    /\ LET in == attempts[a].in
           invalid == validate_payment_requirements(in.amount, in.token_identifier,
                                                    in.receiver)
       IN  IF invalid # NoExc THEN Done(a, invalid, NoReq)
           ELSE Goto(a, "enhance",
                     [timeout |-> IF Truthy(in.max_timeout_seconds)
                                  THEN in.max_timeout_seconds.v
                                  ELSE config.DEFAULT_TIMEOUT_SECONDS],
                     NoReq)
    /\ UNCHANGED <<txs, chain_id, config, req, call, signer_calls>>

\* self.enhance_payment_requirements(...) and the PaymentRequirements returned
CreateReturn(a) ==
    /\ attempts[a].op = "create_payment_requirements"
    /\ attempts[a].pc = "enhance"
    /\ LET in == attempts[a].in
           updated_reqs == enhance_payment_requirements(config, in.token_identifier,
                                                        in.amount, in.receiver)
       IN  IF updated_reqs.exc # NoExc THEN Done(a, updated_reqs.exc, NoReq)
           ELSE Done(a, NoExc,
                     [scheme |-> MVX,
                      network |-> MVX \o COLON \o chain_id,
                      asset |-> in.token_identifier,
                      pay_to |-> in.receiver,
                      max_amount_required |-> IntStr(in.amount),
                      resource |-> <<>>,
                      description |-> <<>>,
                      max_timeout_seconds |-> attempts[a].locals.timeout,
                      mime_type |-> APPLICATION_JSON,
                      extra |-> [data_payload |-> updated_reqs.ret.data_payload,
                                 chain_id |-> chain_id,
                                 assetTransferMethod |-> updated_reqs.ret.assetTransferMethod,
                                 gasLimit |-> updated_reqs.ret.gasLimit]])
    /\ UNCHANGED <<txs, chain_id, config, req, call, signer_calls>>

ConstructBegin(a) ==
    /\ \E in \in ConcurrentConstructs :
        Begin(a, "construct_payment_payload", "read", in, in.requirements, <<>>)
    /\ UNCHANGED <<txs, chain_id, config, req, call, signer_calls>>

\* now, data_payload, transfer_method, relayer, version and is_egld
ConstructRead(a) ==
    /\ attempts[a].op = "construct_payment_payload"
    /\ attempts[a].pc = "read"
    /\ LET requirements == attempts[a].requirements
       IN  Goto(a, "build",
                [now |-> attempts[a].in.now,
                 data_payload |-> Get(requirements.extra, "data_payload", <<>>),
                 relayer |-> IF HasRelayer(requirements.extra)
                             THEN requirements.extra.relayer ELSE <<>>,
                 version |-> PayloadVersion(config, requirements.extra),
                 is_egld |-> requirements.asset = EGLD],
                [requirements EXCEPT !.extra =
                    DictAfterGet(DictAfterGet(DictAfterGet(@, "data_payload", <<>>),
                                              "assetTransferMethod", <<>>),
                                 "relayer", <<>>)])
    /\ UNCHANGED <<txs, chain_id, config, req, call, signer_calls>>

\* the sender, the receiver and the amount are parsed and the factory makes
\* the transaction
ConstructBuild(a) ==
    /\ attempts[a].op = "construct_payment_payload"
    /\ attempts[a].pc = "build"
    /\ LET in == attempts[a].in
           requirements == attempts[a].requirements
           locals == attempts[a].locals
           sender == new_from_bech32(in.sender_address)
           receiver == new_from_bech32(requirements.pay_to)
       IN  IF sender.exc # NoExc THEN Done(a, sender.exc, NoTx) /\ UNCHANGED txs
           ELSE IF receiver.exc # NoExc THEN Done(a, receiver.exc, NoTx) /\ UNCHANGED txs
           ELSE IF ~IsDigits(requirements.max_amount_required)
           THEN /\ Done(a, ValueError("invalid literal for int() with base 10: ",
                                      requirements.max_amount_required), NoTx)
                /\ UNCHANGED txs
           ELSE IF ~in.factory.ok THEN Done(a, FactoryError, NoTx) /\ UNCHANGED txs
           ELSE /\ Goto(a, "override", locals, requirements)
                /\ txs' = [txs EXCEPT ![TxSlot(a)] =
                            [FactoryTransaction(chain_id, locals.is_egld, sender.hex,
                                                receiver.hex, requirements.asset,
                                                ParseInt(requirements.max_amount_required),
                                                in.factory.gas_price)
                             EXCEPT !.data = IF locals.is_egld /\ locals.data_payload # <<>>
                                             THEN Utf8Encode(locals.data_payload) ELSE @]]
    /\ UNCHANGED <<chain_id, config, req, call, signer_calls>>

\* tx.nonce, tx.gas_limit, tx.version and tx.relayer
ConstructOverride(a) ==
    /\ attempts[a].op = "construct_payment_payload"
    /\ attempts[a].pc = "override"
    /\ LET requirements == attempts[a].requirements
           tx == [txs[TxSlot(a)] EXCEPT
                    !.nonce = attempts[a].in.nonce,
                    !.gas_limit = PayloadGasLimit(config, requirements.extra),
                    !.version = attempts[a].locals.version]
           after == [requirements EXCEPT !.extra =
                        DictAfterGet(@, "gasLimit", config.GAS_BASE_COST)]
           relayer == attempts[a].locals.relayer
       IN  IF relayer = <<>>
           THEN /\ Goto(a, "sign", attempts[a].locals, after)
                /\ txs' = [txs EXCEPT ![TxSlot(a)] = tx]
           ELSE IF new_from_bech32(relayer).exc # NoExc
           THEN /\ Done(a, new_from_bech32(relayer).exc, NoTx)
                /\ txs' = [txs EXCEPT ![TxSlot(a)] = tx]
           ELSE /\ Goto(a, "sign", attempts[a].locals, after)
                /\ txs' = [txs EXCEPT ![TxSlot(a)] =
                            [tx EXCEPT !.relayer =
                                Str(new_from_bech32(relayer).hex)]]
    /\ UNCHANGED <<chain_id, config, req, call, signer_calls>>

\* tx.signature = signer.sign_transaction(tx)
ConstructSign(a) ==
    /\ attempts[a].op = "construct_payment_payload"
    /\ attempts[a].pc = "sign"
    /\ IF ~attempts[a].in.signer.ok THEN Done(a, SignerError, NoTx) /\ UNCHANGED txs
       ELSE /\ Goto(a, "return", attempts[a].locals, attempts[a].requirements)
            /\ txs' = [txs EXCEPT ![TxSlot(a)].signature = attempts[a].in.signer.bytes]
    /\ UNCHANGED <<chain_id, config, req, call, signer_calls>>

\* payload_dict and the PaymentPayload returned
ConstructReturn(a) ==
    /\ attempts[a].op = "construct_payment_payload"
    /\ attempts[a].pc = "return"
    /\ Done(a, NoExc,
            [x402_version |-> 1,
             scheme |-> MVX,
             network |-> MVX \o COLON \o chain_id,
             payload |-> PayloadDict(config, attempts[a].requirements, txs[TxSlot(a)],
                                     attempts[a].locals.data_payload,
                                     attempts[a].locals.now)])
    /\ UNCHANGED <<txs, chain_id, config, req, call, signer_calls>>

VerifyBegin(a) ==
    /\ \E in \in ConcurrentVerifies :
        Begin(a, "verify_transaction_content", "receiver", in, in.request, in.tx_data)
    /\ UNCHANGED <<txs, chain_id, config, req, call, signer_calls>>

\* the call of the attempt a goes on to pc, or ends, with the maps as the
\* reads of the step leave them
VerifyStep(a, pc, exc, ret, tx_data, extra) ==
    attempts' = [attempts EXCEPT ![a].pc = pc, ![a].exc = exc, ![a].ret = ret,
                                 ![a].tx_data = tx_data,
                                 ![a].requirements.extra = extra]

\* 1. Verify Receiver
VerifyReceiver(a) ==
    /\ attempts[a].op = "verify_transaction_content"
    /\ attempts[a].pc = "receiver"
    /\ LET request == attempts[a].requirements
           tx_data == attempts[a].tx_data
           after == IF request.asset = EGLD THEN DictAfterGet(tx_data, "receiver", None)
                    ELSE DictAfterGet(DictAfterGet(tx_data, "receiver", None),
                                      "sender", None)
       IN  IF ~ReceiverCheck(tx_data, request)
           THEN VerifyStep(a, "done", NoExc, FALSE, after, request.extra)
           ELSE VerifyStep(a, "data", NoExc, <<>>, after, request.extra)
    /\ UNCHANGED <<txs, chain_id, config, req, call, signer_calls>>

\* 2. Verify Data Field
VerifyData(a) ==
    /\ attempts[a].op = "verify_transaction_content"
    /\ attempts[a].pc = "data"
    /\ LET request == attempts[a].requirements
           extra == DictAfterGet(request.extra, "data_payload", <<>>)
           after == DictAfterGet(attempts[a].tx_data, "data", Str(<<>>))
           Checked(data) ==
                IF data.exc # NoExc THEN VerifyStep(a, "done", data.exc, FALSE, after, extra)
                ELSE IF ~data.ok THEN VerifyStep(a, "done", NoExc, FALSE, after, extra)
                ELSE VerifyStep(a, "status", NoExc, <<>>, after, extra)
       IN  Checked(DataCheck(attempts[a].tx_data, request))
    /\ UNCHANGED <<txs, chain_id, config, req, call, signer_calls>>

\* 3. Verify Status
VerifyStatus(a) ==
    /\ attempts[a].op = "verify_transaction_content"
    /\ attempts[a].pc = "status"
    /\ VerifyStep(a, "done", NoExc, StatusCheck(attempts[a].tx_data),
                  DictAfterGet(attempts[a].tx_data, "status", None),
                  attempts[a].requirements.extra)
    /\ UNCHANGED <<txs, chain_id, config, req, call, signer_calls>>

NextInterleaved ==
    \/ \E a \in Attempts : CreateBegin(a)
    \/ \E a \in Attempts : CreateValidate(a)
    \/ \E a \in Attempts : CreateReturn(a)
    \/ \E a \in Attempts : ConstructBegin(a)
    \/ \E a \in Attempts : ConstructRead(a)
    \/ \E a \in Attempts : ConstructBuild(a)
    \/ \E a \in Attempts : ConstructOverride(a)
    \/ \E a \in Attempts : ConstructSign(a)
    \/ \E a \in Attempts : ConstructReturn(a)
    \/ \E a \in Attempts : VerifyBegin(a)
    \/ \E a \in Attempts : VerifyReceiver(a)
    \/ \E a \in Attempts : VerifyData(a)
    \/ \E a \in Attempts : VerifyStatus(a)

Interleaved == Init /\ [][NextInterleaved]_vars

-----------------------------------------------------------------------------
(* The state of a verification.                                            *)

Verified == call.op = "verify_transaction_content"

\* the verifier returned True
Accepted == Verified /\ call.exc = NoExc /\ call.ret = TRUE

\* the verifier returned False
Rejected == Verified /\ call.exc = NoExc /\ call.ret = FALSE

ObservedReceiver == Get(call.args.tx_data, "receiver", None)
ObservedSender == Get(call.args.tx_data, "sender", None)
ObservedStatus == Get(call.args.tx_data, "status", None)
ObservedValue == Get(call.args.tx_data, "value", None)
ObservedData == Get(call.args.tx_data, "data", Str(<<>>))
ExpectedData == Get(req.extra, "data_payload", <<>>)

\* the receiver rule of the Verifier: the payee of a native requirement; the
\* observed sender or the payee of any other
ReceiverMatches ==
    IF req.asset = EGLD THEN ObservedReceiver = Str(req.pay_to)
    ELSE ObservedReceiver = ObservedSender \/ ObservedReceiver = Str(req.pay_to)

-----------------------------------------------------------------------------
(* The claims.                                                             *)

\* C1: verify_transaction_content returns true only for a transaction that
\* moves the required amount: an accepted transaction for a native-coin
\* requirement of amount X transfers the value X.
C1_AcceptedMovesRequiredAmount ==
    (Accepted /\ req.asset = EGLD) => ObservedValue = Str(req.max_amount_required)

\* C2: the verifier returns true only if the observed receiver is the payee
\* (native requirement), or the observed sender or the payee (non-native
\* requirement); with any other receiver it returns false, whatever the data
\* and the status are.
C2_ReceiverCheck ==
    Verified => /\ (Accepted => ReceiverMatches)
                /\ (~ReceiverMatches => Rejected)

\* a self-transfer that is not to the payee is accepted for a non-native
\* requirement
C2_SelfTransferAccepted ==
    /\ Accepted
    /\ req.asset # EGLD
    /\ ObservedReceiver = ObservedSender
    /\ ObservedReceiver # Str(req.pay_to)

C4_StatusCheck ==
    Verified =>
        /\ (ObservedStatus # Str(SUCCESS) => Rejected)
        /\ (/\ req.asset # EGLD
            /\ ObservedReceiver = ObservedSender
            /\ ObservedData = Str(ExpectedData)
            /\ ObservedStatus = Str(SUCCESS)) => Accepted

-----------------------------------------------------------------------------
(* The state of a call of create_payment_requirements.                     *)

Called == call.op = "create_payment_requirements"

\* create_payment_requirements returned a requirement
Created == Called /\ call.exc = NoExc

IsAlnum(c) == c \in (48..57) \cup (65..90) \cup (97..122)

\* the identifier-hexsuffix shape of a token: a symbol, one hyphen, a
\* hexadecimal suffix
TokenShape(token) ==
    \E i \in 1..Len(token) :
        /\ token[i] = HYPHEN[1]
        /\ i > 1
        /\ i < Len(token)
        /\ \A j \in 1..(i - 1) : IsAlnum(token[j])
        /\ \A j \in (i + 1)..Len(token) : HexVal(token[j]) # -1

\* the last "@"-separated field of a data string: its amount field
AmountField(s) ==
    LET ats == {i \in 1..Len(s) : s[i] = AT[1]}
        last == IF ats = {} THEN 0 ELSE CHOOSE i \in ats : \A j \in ats : j <= i
    IN  SubSeq(s, last + 1, Len(s))

\* C5: create_payment_requirements raises a value error and returns no
\* requirement when the amount is not positive, when the receiver does not
\* start with "erd1" or is not 62 characters long, or when the token is
\* malformed; the error is the one of the first failing check in the order
\* amount, receiver, token, and the three errors are distinct.
C5_ValidationFailsFast ==
    Called =>
        LET amount == call.args.amount
            receiver == call.args.receiver
            token == call.args.token_identifier
            amountBad == amount <= 0
            receiverBad == ~StartsWith(receiver, ERD1) \/ Len(receiver) # 62
            tokenBad == token # EGLD /\ ~TokenShape(token)
            amountError == ValueError("Amount must be positive", <<>>)
            receiverError == ValueError("Invalid receiver address format: ", receiver)
            tokenError == ValueError("Invalid token identifier format: ", token)
        IN  /\ amountBad => call.exc = amountError
            /\ (~amountBad /\ receiverBad) => call.exc = receiverError
            /\ (~amountBad /\ ~receiverBad /\ tokenBad) => call.exc = tokenError
            /\ (amountBad \/ receiverBad \/ tokenBad) => ~IsReq(req)
            /\ amountError # receiverError
            /\ receiverError # tokenError
            /\ amountError # tokenError

\* C6: the asset of every requirement create_payment_requirements returns is
\* "EGLD" or has the identifier-hexsuffix shape; every other token is rejected
\* with a value error.
C6_AssetWellFormed ==
    /\ Created => (req.asset = EGLD \/ TokenShape(req.asset))
    /\ (/\ Called
        /\ call.args.token_identifier # EGLD
        /\ ~TokenShape(call.args.token_identifier)) => call.exc.type = "ValueError"

\* C7 as stated: the transfer method of every requirement returned is "direct"
\* if and only if the token is the native coin and "token" otherwise; its data
\* string is empty if and only if the token is the native coin.
C7_TransferMethodToken ==
    Created =>
        /\ req.extra.assetTransferMethod = DIRECT <=> req.asset = EGLD
        /\ req.asset # EGLD => req.extra.assetTransferMethod = TOKEN_METHOD
        /\ req.extra.data_payload = <<>> <=> req.asset = EGLD

\* C7 amended: the transfer method of every requirement returned is "direct"
\* if and only if the token is the native coin and "esdt" otherwise; its data
\* string is empty if and only if the token is the native coin.
C7_TransferMethodEsdt ==
    Created =>
        /\ req.extra.assetTransferMethod = DIRECT <=> req.asset = EGLD
        /\ req.asset # EGLD => req.extra.assetTransferMethod = ESDT_METHOD
        /\ req.extra.data_payload = <<>> <=> req.asset = EGLD

\* a requirement for a non-native token, with the method "esdt" and a data
\* string
C7_NonNativeCreated ==
    /\ Created
    /\ req.asset = USDC
    /\ req.extra.assetTransferMethod = ESDT_METHOD
    /\ req.extra.data_payload # <<>>

\* C8: calculate_gas_limit(data, token) is base cost + per-byte cost * UTF-8
\* byte length of data + multi-transfer surcharge + relay surcharge, plus
\* 10,000,000 if and only if the token is not the native coin or the data is
\* not empty; for the native coin and empty data it is base + multi-transfer
\* surcharge + relay surcharge.
C8_GasFormula ==
    call.op = "calculate_gas_limit" =>
        LET data == call.args.data_string
            token == call.args.token_identifier
            plain == config.GAS_BASE_COST + config.GAS_PER_BYTE * Len(Utf8Encode(data))
                     + config.GAS_MULTI_TRANSFER_COST + config.GAS_RELAYED_COST
        IN  /\ (token # EGLD \/ data # <<>>) => call.ret = plain + 10000000
            /\ ~(token # EGLD \/ data # <<>>) => call.ret = plain
            /\ (token = EGLD /\ data = <<>>) =>
                    call.ret = config.GAS_BASE_COST + config.GAS_MULTI_TRANSFER_COST
                               + config.GAS_RELAYED_COST

\* the gas of a data string with more bytes than characters
C8_MultiByteData ==
    /\ call.op = "calculate_gas_limit"
    /\ call.args.data_string = E_ACUTE \o E_ACUTE
    /\ config.GAS_PER_BYTE = 1500
    /\ call.ret = config.GAS_BASE_COST + 6000 + config.GAS_MULTI_TRANSFER_COST
                  + config.GAS_RELAYED_COST + 10000000

\* C9: for every configuration of the scheme, the result of
\* calculate_gas_limit is strictly positive and, for a fixed token, strictly
\* greater than its result for every data string of fewer bytes.
C9_GasMonotonicPositive ==
    call.op = "calculate_gas_limit" =>
        /\ call.ret > 0
        /\ \A shorter \in GasData :
              Len(Utf8Encode(shorter)) < Len(Utf8Encode(call.args.data_string)) =>
                  calculate_gas_limit(config, shorter, call.args.token_identifier) < call.ret

\* what C10 says of the data string an encoder gives for a token and an amount
EncodesTransfer(data, token, amount) ==
    /\ Contains(data, BytesHex(Utf8Encode(token)))
    /\ Contains(data, IntHex(amount))
    /\ Len(AmountField(data)) % 2 = 0
    /\ ~StartsWith(AmountField(data), <<48, 48>>)
    /\ ParseHex(AmountField(data)) = amount

\* C10: for a positive amount and a non-native token, the data string of
\* encode_single_transfer, of encode_multi_transfer and of a requirement
\* returned contains the hex of the token identifier and the hex of the amount;
\* its amount field has even length, does not start with a zero byte, and is
\* the amount in hexadecimal.
C10_AmountEncoding ==
    /\ (/\ call.op \in {"_construct_transfer_data_string", "encode_single_transfer"}
        /\ call.args.token # EGLD
        /\ call.exc = NoExc) =>
            EncodesTransfer(call.ret, call.args.token, call.args.amount)
    /\ (Created /\ req.asset # EGLD) =>
            EncodesTransfer(req.extra.data_payload, req.asset, call.args.amount)

\* the multi-transfer data string of an amount of three hex digits, padded to
\* four
C10_PaddedAmount ==
    /\ call.op = "_construct_transfer_data_string"
    /\ call.exc = NoExc
    /\ call.args.token = USDC
    /\ call.args.amount = 4095
    /\ AmountField(call.ret) = <<48, 102, 102, 102>>

-----------------------------------------------------------------------------
(* Payload construction.                                                   *)

\* construct_payment_payload was called; it returned a payload
Constructed == call.op = "construct_payment_payload"

Paid == Constructed /\ call.exc = NoExc

\* the requirement names the direct transfer method
DirectMethod ==
    /\ "assetTransferMethod" \in DOMAIN req.extra
    /\ req.extra.assetTransferMethod = config.TRANSFER_METHOD_DIRECT

RelayerPresent == "relayer" \in DOMAIN req.extra /\ req.extra.relayer # <<>>

\* C12: the version of every payload returned by construct_payment_payload is
\* 2 when a relayer is present in the extension map of the requirement, and 1
\* otherwise.
C12_VersionByRelayer ==
    Paid => call.ret.payload.version = (IF RelayerPresent THEN 2 ELSE 1)

\* C13: a payload returned has a "relayer" key, equal to the relayer address of
\* the requirement, and its transaction has that address as relayer, if and
\* only if the extension map of the requirement has a relayer address; with
\* none, the relayer of the transaction is as the factory left it, the payload
\* has no "relayer" key, and no relayer is parsed: an address error then comes
\* from the sender or the payee.
C13_RelayerAttached ==
    /\ (Paid /\ RelayerPresent) =>
            /\ "relayer" \in DOMAIN call.ret.payload
            /\ call.ret.payload.relayer = req.extra.relayer
            /\ call.tx.relayer = Str(AddressHex(req.extra.relayer).hex)
    /\ (Paid /\ ~RelayerPresent) =>
            /\ "relayer" \notin DOMAIN call.ret.payload
            /\ call.tx.relayer = None
    /\ (Constructed /\ ~RelayerPresent /\ call.exc.type = "BadAddressError") =>
            \/ AddressHex(call.args.sender_address).exc # NoExc
            \/ AddressHex(req.pay_to).exc # NoExc

\* a payload with the relayer of the requirement, whose transaction has it
C13_RelayedPayload ==
    /\ Paid
    /\ RelayerPresent
    /\ call.ret.payload.relayer = ADDR_ONE
    /\ call.tx.relayer = Str(AddressHex(ADDR_ONE).hex)

\* C14: when the extension map of the requirement has no data string, the data
\* string of the payload returned is the one _construct_transfer_data_string
\* gives for the asset, the amount and the payee of the requirement.
C14_DataRecomputed ==
    (Paid /\ "data_payload" \notin DOMAIN req.extra) =>
        call.ret.payload.data =
            _construct_transfer_data_string(req.asset, ParseInt(req.max_amount_required),
                                            req.pay_to).ret

\* the timeout of the requirement, the default of the configuration when the
\* requirement has none
RequiredTimeout ==
    IF "max_timeout_seconds" \in DOMAIN req THEN req.max_timeout_seconds
    ELSE config.DEFAULT_TIMEOUT_SECONDS

\* C15: the validity window of every payload returned comes from the one clock
\* reading of the call: validAfter = now - 600 and validBefore = now + the
\* timeout of the requirement, the default timeout of the configuration when
\* the requirement has none; validBefore - validAfter = 600 + timeout.
C15_ValidityWindow ==
    Paid =>
        /\ call.ret.payload.validAfter = call.args.now - 600
        /\ call.ret.payload.validBefore = call.args.now + RequiredTimeout
        /\ call.ret.payload.validBefore - call.ret.payload.validAfter
                = 600 + RequiredTimeout

\* the exceptions of the capabilities construct_payment_payload calls
CapabilityFailures == {"SignerError", "FactoryError", "BadAddressError"}

-----------------------------------------------------------------------------
(* The DID resolver, the price parser and the data decoder.                *)

\* resolve_did_to_address was called; it returned an address
Resolving == call.op = "resolve_did_to_address"

Resolved == Resolving /\ call.exc = NoExc

\* the segments of a DID lack the method "pkh" or the namespace "mvx", or are
\* fewer than five
WrongDid(parts) ==
    \/ Len(parts) < 5
    \/ parts[2] # PKH
    \/ parts[3] # MVX

\* C17: resolving "did:pkh:mvx:C:A" returns A, for every chain id C and
\* address A; a DID whose second segment is not "pkh", whose third is not
\* "mvx", or that has fewer than five segments fails with a value error.
C17_ResolveInvertsDid ==
    Resolving =>
        /\ \A c \in DidChains, a \in DidAddresses :
                call.args.did = DidOf(c, a) => call.exc = NoExc /\ call.ret = a
        /\ WrongDid(Split(call.args.did)) =>
                call.exc = ValueError("Invalid MultiversX DID: ", call.args.did)

\* the DID of an address on chain "D" resolved to the address
C17_ResolvedDid ==
    /\ Resolved
    /\ call.args.did = DidOf(CHAIN_D, ADDR_AB)
    /\ call.ret = ADDR_AB

\* C18: every input that is not of the shape did:pkh:mvx:<chain id>:<address>,
\* first segment "did" included, fails with a value error: an address is
\* returned for no other shape.
C18_StrictParser ==
    Resolved =>
        /\ Len(Split(call.args.did)) >= 5
        /\ Split(call.args.did)[1] = DID
        /\ Split(call.args.did)[2] = PKH
        /\ Split(call.args.did)[3] = MVX

\* parse_price was called
Priced == call.op = "parse_price"

\* the number a text denotes times 10 ** decimals, with every digit kept
ExactProduct(n, decimals) ==
    [coef |-> StripZeros(n.int \o n.frac) \o Rep(48, decimals), exp |-> -Len(n.frac)]

\* the text has a decimal point and denotes a fraction
IsFraction(text) == Contains(text, <<46>>) /\ ReadNumber(text).ok

\* C19: for a text with a decimal point that denotes the fraction v, parse_price
\* returns v * 10 ** decimals truncated to an integer, with no rounding and no
\* digit lost whatever the magnitude; a text of digits only is returned as the
\* integer it denotes; a text that denotes no number fails with a value error.
C19_PriceExact ==
    Priced =>
        /\ IsFraction(call.args.amount_str) =>
            /\ call.exc = NoExc
            /\ call.ret = Numeral(ReadNumber(call.args.amount_str).neg,
                                  DecimalToInt(ExactProduct(ReadNumber(call.args.amount_str),
                                                            call.args.decimals)))
        /\ IsDigits(call.args.amount_str) =>
            call.exc = NoExc /\ call.ret = StripZeros(call.args.amount_str)
        /\ ~ReadNumber(call.args.amount_str).ok =>
            call.exc = ValueError("Invalid price format: ", call.args.amount_str)

\* _decode_transaction_data was called
Decoding == call.op = "_decode_transaction_data"

\* C20: _decode_transaction_data raises for no input: an empty or absent input
\* gives the empty string, and so does every call end with a string returned;
\* verify_transaction_content always returns a boolean and lets no decoding
\* exception through.
C20_DecoderNeverRaises ==
    /\ Decoding =>
        /\ call.exc = NoExc
        /\ call.args.data \in {None, Str(<<>>), Bytes(<<>>)} => call.ret = <<>>
    /\ Verified => call.exc = NoExc /\ call.ret \in BOOLEAN

\* the text of the data the decoder was given: the data itself, or what its
\* bytes say
DataText(data) == IF data.t = "bytes" THEN Utf8Decode(data.v).str ELSE data.v

\* the text starts with "ESDT" or "MultiESDT"
OpcodePrefixed(text) ==
    \/ Len(text) >= 4 /\ SubSeq(text, 1, 4) = <<69, 83, 68, 84>>
    \/ Len(text) >= 9 /\ SubSeq(text, 1, 9) = <<77, 117, 108, 116, 105, 69, 83, 68, 84>>

\* the decoder was given the base64 of x, as a str or as bytes
GivenBase64Of(x) ==
    call.args.data \in {Str(b64encode(Utf8Encode(x))),
                        Bytes(Utf8Encode(b64encode(Utf8Encode(x))))}

\* C21, as stated: for every UTF-8 text x the decoder returns x for the base64
\* of x, and it returns unchanged every text that starts with "ESDT" or
\* "MultiESDT", valid base64 or not.
C21_DecoderInvertsBase64 ==
    Decoding =>
        /\ \A x \in DecoderTexts :
                GivenBase64Of(x) => call.exc = NoExc /\ call.ret = x
        /\ (/\ call.args.data # None
            /\ call.args.data.t = "bytes" => Utf8Decode(call.args.data.v).ok
            /\ OpcodePrefixed(DataText(call.args.data))) =>
                call.exc = NoExc /\ call.ret = DataText(call.args.data)

\* C21, amended: the decoder returns x for the base64 of x when that base64
\* does not itself start with "ESDT" or "MultiESDT"; every text that starts
\* with one of them is returned unchanged, valid base64 or not.
C21_DecoderInvertsUnprefixedBase64 ==
    Decoding =>
        /\ \A x \in DecoderTexts :
                (GivenBase64Of(x) /\ ~OpcodePrefixed(b64encode(Utf8Encode(x)))) =>
                    call.exc = NoExc /\ call.ret = x
        /\ (/\ call.args.data # None
            /\ call.args.data.t = "bytes" => Utf8Decode(call.args.data.v).ok
            /\ OpcodePrefixed(DataText(call.args.data))) =>
                call.exc = NoExc /\ call.ret = DataText(call.args.data)

\* "ESDTgA==", valid base64 of a valid text, returned as it is
C21_PrefixedBase64Unchanged ==
    /\ Decoding
    /\ call.args.data = Str(<<69, 83, 68, 84, 103, 65, 61, 61>>)
    /\ b64decode(call.args.data.v).ok
    /\ Utf8Decode(b64decode(call.args.data.v).bytes).str = DC1_SPACE_PALOCHKA
    /\ call.ret = call.args.data.v

-----------------------------------------------------------------------------
(* The flow from the requirement to the verdict.                           *)

\* the requirement of the attempt is one create_payment_requirements returns
FromBuilder ==
    \E amount \in Amounts, token \in Tokens, receiver \in Receivers, timeout \in Timeouts :
        req = create_payment_requirements(config, chain_id, amount, token, receiver,
                                          <<>>, <<>>, timeout).ret

\* the verifier was given the transaction of a payload constructed from the
\* requirement: the receiver and the sender of the payload, and its data, raw
\* or in base64
VerifiedPayload ==
    /\ Verified
    /\ "payload" \in DOMAIN call.args
    /\ ObservedReceiver = Str(call.args.payload.receiver)
    /\ ObservedSender = Str(call.args.payload.sender)
    /\ ObservedData \in {Str(call.args.payload.data),
                         Str(b64encode(Utf8Encode(call.args.payload.data)))}

\* C22: for a requirement returned by create_payment_requirements, native or
\* not, and a payload constructed from it, verify_transaction_content accepts
\* the receiver, the sender and the data of the payload (raw or in base64)
\* with the status "success", and rejects them with any other status.
C22_EndToEnd ==
    (VerifiedPayload /\ FromBuilder) =>
        IF ObservedStatus = Str(SUCCESS) THEN Accepted ELSE Rejected

\* the payload of a non-native requirement, accepted with its data in base64
C22_TokenPayloadAccepted ==
    /\ VerifiedPayload
    /\ FromBuilder
    /\ req.asset = USDC
    /\ ObservedData = Str(b64encode(Utf8Encode(req.extra.data_payload)))
    /\ ObservedData # Str(req.extra.data_payload)
    /\ Accepted

\* C25: the nonce of the transaction is the nonce the caller supplied and its
\* gas limit is the gas limit of the extension map of the requirement, the
\* base gas cost of the configuration when the map has none; the "nonce" and
\* "gasLimit" of the payload returned are these values.
C25_NonceAndGasLimit ==
    Paid =>
        /\ call.tx.nonce = call.args.nonce
        /\ call.ret.payload.nonce = call.args.nonce
        /\ call.tx.gas_limit = (IF "gasLimit" \in DOMAIN req.extra THEN req.extra.gasLimit
                                ELSE config.GAS_BASE_COST)
        /\ call.ret.payload.gasLimit = call.tx.gas_limit

\* a payload with the nonce 10 and a gas limit of the requirement that is not
\* the base cost
C25_StoredGasLimit ==
    /\ Paid
    /\ call.args.nonce = 10
    /\ call.ret.payload.nonce = 10
    /\ "gasLimit" \in DOMAIN req.extra
    /\ req.extra.gasLimit # config.GAS_BASE_COST
    /\ call.ret.payload.gasLimit = req.extra.gasLimit

-----------------------------------------------------------------------------
(* The executor.                                                           *)

\* verify_payment was called
PaymentVerified == call.op = "verify_payment"

\* the three checks of the executor on the payload it was given
SchemeOk == call.args.payload.scheme = <<109, 118, 120>>
NetworkOk == call.args.payload.network = <<109, 118, 120, 58>> \o chain_id
PayloadOk == call.args.payload.payload # <<>>

\* C26: verify_payment returns is_valid = true if and only if the scheme of the
\* payload is "mvx", its network is "mvx:" and the chain id of the executor,
\* and its payload field is not empty; the reason returned names the first of
\* these checks that fails, in the order scheme, network, payload; the result
\* is the same for every requirement.
C26_ExecutorChecks ==
    PaymentVerified =>
        /\ call.ret.is_valid <=> (SchemeOk /\ NetworkOk /\ PayloadOk)
        /\ ~SchemeOk => call.ret.invalid_reason.msg = "Invalid scheme: expected 'mvx'"
        /\ (SchemeOk /\ ~NetworkOk) =>
                /\ call.ret.invalid_reason.msg = "Invalid network: expected mvx:"
                /\ call.ret.invalid_reason.arg = chain_id
        /\ (SchemeOk /\ NetworkOk /\ ~PayloadOk) =>
                call.ret.invalid_reason.msg = "Empty payload"
        /\ \A requirements \in HandmadeRequests :
                verify_payment(chain_id, call.args.payload, requirements) = call.ret

\* a payload of another scheme and of another network: the scheme is named
C26_SchemeNamedFirst ==
    /\ PaymentVerified
    /\ ~SchemeOk
    /\ ~NetworkOk
    /\ ~call.ret.is_valid
    /\ call.ret.invalid_reason.msg = "Invalid scheme: expected 'mvx'"

-----------------------------------------------------------------------------
(* The payload and the transaction that was signed.                        *)

\* C27: every transaction field of the payload returned (nonce, value,
\* receiver, sender, gas limit, data, chain id, version, relayer) is the field
\* of the transaction that was handed to the signer, which after the signer
\* differs by its signature only; the "data" of the payload is the data of the
\* signed transaction on the native and on the token path.
C27_PayloadIsSignedTransaction ==
    Paid =>
        /\ call.ret.payload.nonce = call.tx.nonce
        /\ call.ret.payload.value = IntStr(call.tx.value)
        /\ AddressHex(call.ret.payload.receiver).hex = call.tx.receiver
        /\ AddressHex(call.ret.payload.sender).hex = call.tx.sender
        /\ call.ret.payload.gasLimit = call.tx.gas_limit
        /\ Utf8Encode(call.ret.payload.data) = call.tx.data
        /\ call.ret.payload.chainID = call.tx.chain_id
        /\ call.ret.payload.version = call.tx.version
        /\ IF "relayer" \in DOMAIN call.ret.payload
           THEN call.tx.relayer = Str(AddressHex(call.ret.payload.relayer).hex)
           ELSE call.tx.relayer = None

\* C28: verify_transaction_content returns false for observed fields that have
\* no receiver, for a native and a non-native requirement alike, with or
\* without a sender.
C28_NoReceiverRejected ==
    (Verified /\ "receiver" \notin DOMAIN call.args.tx_data) => Rejected

\* C29: the timeout of every requirement create_payment_requirements returns
\* is at least the minimum timeout of the configuration, whatever timeout the
\* caller gave, and every payload constructed from it has validAfter before
\* validBefore.
C29_MinimumTimeout ==
    /\ Created => req.max_timeout_seconds >= config.MIN_TIMEOUT_SECONDS
    /\ (Paid /\ FromBuilder) => call.ret.payload.validAfter < call.ret.payload.validBefore


\* what the call of an attempt returns when it runs alone: the operation
\* applied at once to the arguments of the call
AloneResult(at) ==
    LET Outcome(r) == [exc |-> r.exc, ret |-> r.ret]
    IN  CASE at.op = "create_payment_requirements" ->
                Outcome(create_payment_requirements(
                            config, chain_id, at.in.amount, at.in.token_identifier,
                            at.in.receiver, <<>>, <<>>, at.in.max_timeout_seconds))
          [] at.op = "construct_payment_payload" ->
                Outcome(construct_payment_payload(
                            config, chain_id, at.in.requirements, at.in.signer,
                            at.in.factory, at.in.sender_address, at.in.nonce, at.in.now))
          [] at.op = "verify_transaction_content" ->
                Outcome(verify_transaction_content(at.in.tx_data, at.in.request))

\* the call of the attempt has ended
Ended(a) == attempts[a].pc = "done"

\* C23: however the steps of the calls made on one instance for different
\* payment attempts are interleaved, every call that has ended has returned
\* or raised what the same call returns or raises when it runs alone with the
\* same arguments, clock reading and signer output.
C23_InterleavedAsAlone ==
    \A a \in Attempts :
        Ended(a) => [exc |-> attempts[a].exc, ret |-> attempts[a].ret]
                        = AloneResult(attempts[a])

\* two payloads were constructed and signed in calls whose steps were
\* interleaved, with different nonces
C23_TwoPayloadsInterleaved ==
    \E a, b \in Attempts :
        /\ a # b
        /\ Ended(a) /\ Ended(b)
        /\ attempts[a].op = "construct_payment_payload"
        /\ attempts[b].op = "construct_payment_payload"
        /\ attempts[a].concurrent /\ attempts[b].concurrent
        /\ attempts[a].exc = NoExc /\ attempts[b].exc = NoExc
        /\ attempts[a].in.nonce # attempts[b].in.nonce
        /\ attempts[a].ret.payload.nonce = attempts[a].in.nonce
        /\ attempts[b].ret.payload.nonce = attempts[b].in.nonce

\* the requirement record and the observed-fields map of the attempt are the
\* ones the call was given
InputsAsGiven(a) ==
    /\ attempts[a].op = "construct_payment_payload"
        => attempts[a].requirements = attempts[a].in.requirements
    /\ attempts[a].op = "verify_transaction_content"
        => /\ attempts[a].requirements = attempts[a].in.request
           /\ attempts[a].tx_data = attempts[a].in.tx_data

\* C24: at every step of every call, on the way to a result and to an
\* exception alike, the requirement record with its extension map and the
\* observed-fields map are what the caller passed, and no step changes the
\* config or the chain id of the scheme.
C24_InputsAndConfigUnchanged ==
    /\ [](\A a \in Attempts : InputsAsGiven(a))
    /\ [][config' = config /\ chain_id' = chain_id]_vars

\* a payload construction has ended with the exception of the signer on a
\* requirement whose extension map is empty, and a verification has ended
\* with a result on a map of observed fields that has no receiver
C24_EndedBothWays ==
    \E a, b \in Attempts :
        /\ Ended(a) /\ Ended(b)
        /\ attempts[a].op = "construct_payment_payload"
        /\ attempts[a].exc = SignerError
        /\ DOMAIN attempts[a].in.requirements.extra = {}
        /\ attempts[b].op = "verify_transaction_content"
        /\ attempts[b].exc = NoExc
        /\ "receiver" \notin DOMAIN attempts[b].in.tx_data

=============================================================================
